---------------------------- MODULE Spec2Model ----------------------------
(***************************************************************************)
(* Model of the add-creche-api server.  The repository holds several       *)
(* revisions of one Express server:                                        *)
(*   "pgclient" src/server.js lines 1-169 (customers only)                 *)
(*   "sqlite"   src/server.js lines 171-899 (= src/unnamed/part_002)       *)
(*   "pg"       src/unnamed/part_000                                       *)
(*   "supabase" src/unnamed/part_001                                       *)
(* A behaviour of the model is a run of one revision (variable rev) over   *)
(* its charge table, its data directory and its in-flight return-file      *)
(* request.  Text is modelled as a sequence of one-character strings so    *)
(* that split, substring, trim and startsWith are computed as the code     *)
(* computes them.                                                          *)
(***************************************************************************)
EXTENDS Integers, Sequences, FiniteSets, TLC

VARIABLES
  rev,        \* which revision of the server is running
  cobrancas,  \* table cobrancas: id -> row
  arquivos,   \* names of the files in dataDir
  retorno,    \* the /api/processar-retorno request in flight (closure state)
  res,        \* the last HTTP response sent
  obs,        \* observations about the run, read by the properties only
  clientes,   \* table clientes: id -> row
  config,     \* table of the configuration: id -> row
  gets,       \* the GET /api/config requests in flight
  documentos, \* what each archive file of dataDir holds
  usuarios,   \* table usuarios: id -> row
  password_reset_tokens, \* table password_reset_tokens: token -> row
  transacao,  \* the transaction open on the database connection
  resets,     \* the POST /api/reset-password requests in flight
  emitidos    \* the tokens uuidv4 has generated so far

\* The state of the password routes.
senhas == <<usuarios, password_reset_tokens, transacao, resets, emitidos>>

vars ==
  <<rev, cobrancas, arquivos, retorno, res, obs, clientes, config, gets,
    documentos, senhas>>

\* ------------------------------------------------------------------ bounds

\* Largest number of lines of an uploaded return file.
MaxLinhas == 2

\* ------------------------------------------------------------------- text

Min(a, b) == IF a < b THEN a ELSE b

LF == "\n"
CR == "\r"

\* Characters String.prototype.trim removes.
Whitespace == {" ", "\t", CR, LF}

\* String.prototype.substring(a, b) for 0 <= a <= b: 0-based, end-exclusive,
\* both indexes clamped to the length.
Substring(s, a, b) == SubSeq(s, Min(a, Len(s)) + 1, Min(b, Len(s)))

RECURSIVE TrimStart(_)
TrimStart(s) ==
  IF s = <<>> \/ Head(s) \notin Whitespace THEN s ELSE TrimStart(Tail(s))

RECURSIVE TrimEnd(_)
TrimEnd(s) ==
  IF s = <<>> \/ s[Len(s)] \notin Whitespace THEN s
  ELSE TrimEnd(SubSeq(s, 1, Len(s) - 1))

\* String.prototype.trim
Trim(s) == TrimEnd(TrimStart(s))

\* String.prototype.startsWith
StartsWith(s, p) == Len(s) >= Len(p) /\ SubSeq(s, 1, Len(p)) = p

\* s.split(/\r?\n/): the text is cut at every "\n", and a "\r" right before
\* it belongs to the separator.  acc collects the lines already cut and cur
\* the current line.
RECURSIVE SplitFrom(_, _, _)
SplitFrom(s, acc, cur) ==
  IF s = <<>> THEN Append(acc, cur)
  ELSE IF Head(s) = LF THEN SplitFrom(Tail(s), Append(acc, cur), <<>>)
  ELSE IF Head(s) = CR /\ Len(s) >= 2 /\ s[2] = LF
       THEN SplitFrom(Tail(Tail(s)), Append(acc, cur), <<>>)
  ELSE SplitFrom(Tail(s), acc, Append(cur, Head(s)))

SplitLinhas(conteudoArquivo) == SplitFrom(conteudoArquivo, <<>>, <<>>)


\* A non-empty string is truthy in a JavaScript condition.
Truthy(s) == s # <<>>

\* ------------------------------------------------------------------- data

\* SQL NULL in a text column.
Null == <<"null">>

\* Charge identifiers: C1 and C2 can be rows of the table, C9 never is.
C1 == <<"c", "1">>
C2 == <<"c", "2">>
C9 == <<"c", "9">>
IdsBanco == {C1, C2}

Pendente == <<"P", "e", "n", "d", "e", "n", "t", "e">>
Pago == <<"P", "a", "g", "o">>
\* The template string `Rejeitado (${codigoOcorrencia})`.
Rejeitado(codigoOcorrencia) ==
  <<"R", "e", "j", "e", "i", "t", "a", "d", "o", " ", "(">>
    \o codigoOcorrencia \o <<")">>

NA == <<"N", "/", "A">>
Processado == <<"P", "r", "o", "c", "e", "s", "s", "a", "d", "o">>
\* The sqlite schema has no statusRemessa column.
SemColuna == <<"sem coluna">>

Nsa007 == <<"0", "0", "7">>
Nsa008 == <<"0", "0", "8">>

Revisoes == {"sqlite", "pg", "supabase"}

\* A row of cobrancas.  The columns the handlers only copy (cliente, valor,
\* vencimento) hold one fixed value each.
Linha(status, statusRemessa, nsa) ==
  [clienteId |-> <<"k", "1">>, valor |-> 150, vencimento |-> <<"d", "1">>,
   status |-> status, statusRemessa |-> statusRemessa, nsa_remessa |-> nsa]

\* statusRemessa of a row the revision creates.
RemessaInicial(r) == IF r = "sqlite" THEN SemColuna ELSE NA

\* ------------------------------------------- /api/processar-retorno (sqlite)

\* The skip test without its marker half.
IgnoraLinhaSoVazia(linha) == Trim(linha) = <<>>

\* linha.trim () === '' || !linha.startsWith ('T')
IgnoraLinha(linha) == Trim(linha) = <<>> \/ ~StartsWith(linha, <<"T">>)

\* linha.substring (1, 17).trim ()
IdentificadorCobranca(linha) == Trim(Substring(linha, 1, 17))

\* The code column read one character early.
CodigoOcorrenciaDeslocado(linha) == Trim(Substring(linha, 16, 18))

\* linha.substring (17, 19).trim ()
CodigoOcorrencia(linha) == Trim(Substring(linha, 17, 19))

CodigoPago(codigoOcorrencia) ==
  codigoOcorrencia = <<"0", "0">> \/ codigoOcorrencia = <<"P", "G">>

NovoStatus(codigoOcorrencia) ==
  IF CodigoPago(codigoOcorrencia) THEN Pago ELSE Rejeitado(codigoOcorrencia)

\* if (novoStatus && identificadorCobranca): the line's UPDATE is issued.
EmiteUpdate(novoStatus, identificadorCobranca) ==
  Truthy(novoStatus) /\ Truthy(identificadorCobranca)

\* The executor without its last else branch: a counted line that issues no
\* UPDATE never resolves its promise.
ExecutorSemElse(linha) ==
  IF IgnoraLinha(linha)
  THEN [estado |-> "resolved", contada |-> "nao", run |-> FALSE,
        identificadorCobranca |-> <<>>, codigoOcorrencia |-> <<>>,
        novoStatus |-> <<>>]
  ELSE LET id == IdentificadorCobranca(linha)
           cod == CodigoOcorrencia(linha)
           st == NovoStatus(cod)
       IN [estado |-> "pending",
           contada |-> IF CodigoPago(cod) THEN "pago" ELSE "rejeitado",
           run |-> EmiteUpdate(st, id),
           identificadorCobranca |-> id, codigoOcorrencia |-> cod,
           novoStatus |-> st]

\* The executor of one line's promise, run synchronously by linhas.map: the
\* promise with the variables its closure keeps.
Executor(linha) ==
  IF IgnoraLinha(linha)
  THEN [estado |-> "resolved", contada |-> "nao", run |-> FALSE,
        identificadorCobranca |-> <<>>, codigoOcorrencia |-> <<>>,
        novoStatus |-> <<>>]
  ELSE LET id == IdentificadorCobranca(linha)
           cod == CodigoOcorrencia(linha)
           st == NovoStatus(cod)
       IN [estado |-> IF EmiteUpdate(st, id) THEN "pending" ELSE "resolved",
           contada |-> IF CodigoPago(cod) THEN "pago" ELSE "rejeitado",
           run |-> EmiteUpdate(st, id),
           identificadorCobranca |-> id, codigoOcorrencia |-> cod,
           novoStatus |-> st]

Contadas(promises, como) ==
  Cardinality({i \in DOMAIN promises : promises[i].contada \in como})

\* Promise.race in place of Promise.all: continues once one promise is
\* resolved.
PromiseRace(promises) ==
  \E i \in DOMAIN promises : promises[i].estado = "resolved"

\* await Promise.all (promises) continues once every promise is resolved.
PromiseAll(promises) ==
  \A i \in DOMAIN promises : promises[i].estado = "resolved"

RetornoOcioso ==
  [pc |-> "ocioso", linhas |-> <<>>, promises |-> <<>>, processados |-> 0,
   pagos |-> 0, rejeitados |-> 0, errosDeAtualizacao |-> 0]

\* What the properties keep of the run before this one when this one uploads
\* the same content again: its tally and the statuses it left.
SemAnterior ==
  [houve |-> FALSE, conteudo |-> <<>>, detalhes |-> <<>>, status |-> <<>>]

ObsInicial ==
  [regs |-> <<>>, sep |-> <<>>, final |-> FALSE, aplicadas |-> {},
   comErro |-> {}, semLinha |-> {}, conteudo |-> <<>>,
   anterior |-> SemAnterior]

\* A response: the route, the HTTP status, what the body reports, and the
\* request it answers.
Resposta(rota, status, corpo, pedido) ==
  [rota |-> rota, status |-> status, corpo |-> corpo, pedido |-> pedido]

SemResposta == Resposta("nenhuma", 0, <<>>, <<>>)

\* The run that has just been answered, as the properties remember it.
Anterior ==
  [houve |-> TRUE, conteudo |-> obs.conteudo, detalhes |-> res.corpo,
   status |-> [id \in DOMAIN cobrancas |-> cobrancas[id].status]]

\* The handler with its counters declared outside of it, so that they are
\* never reset.
ProcessarRetornoContadoresDeFora(conteudoArquivo, regs, sep, final, anterior) ==
  /\ rev = "sqlite"
  /\ retorno.pc # "aguardando"
  /\ LET linhas == SplitLinhas(conteudoArquivo)
         promises == [i \in DOMAIN linhas |-> Executor(linhas[i])]
     IN retorno' =
          [pc |-> "aguardando", linhas |-> linhas, promises |-> promises,
           processados |->
             retorno.processados + Contadas(promises, {"pago", "rejeitado"}),
           pagos |-> retorno.pagos + Contadas(promises, {"pago"}),
           rejeitados |-> retorno.rejeitados + Contadas(promises, {"rejeitado"}),
           errosDeAtualizacao |-> retorno.errosDeAtualizacao]
  /\ obs' = [ObsInicial EXCEPT !.regs = regs, !.sep = sep, !.final = final,
                               !.conteudo = conteudoArquivo,
                               !.anterior = anterior]
  /\ res' = SemResposta
  /\ UNCHANGED <<senhas, rev, clientes, config, gets, documentos, cobrancas, arquivos>>

\* The handler up to its await: the file is split, every executor runs and
\* every UPDATE is handed to the database.  regs, sep and final say how the
\* uploaded text was written and anterior what the properties remember of
\* the run before; the handler reads conteudoArquivo only.
ProcessarRetornoCom(conteudoArquivo, regs, sep, final, anterior) ==
  /\ rev = "sqlite"
  /\ retorno.pc # "aguardando"
  /\ LET linhas == SplitLinhas(conteudoArquivo)
         promises == [i \in DOMAIN linhas |-> Executor(linhas[i])]
     IN retorno' =
          [pc |-> "aguardando", linhas |-> linhas, promises |-> promises,
           processados |-> Contadas(promises, {"pago", "rejeitado"}),
           pagos |-> Contadas(promises, {"pago"}),
           rejeitados |-> Contadas(promises, {"rejeitado"}),
           errosDeAtualizacao |-> 0]
  /\ obs' = [ObsInicial EXCEPT !.regs = regs, !.sep = sep, !.final = final,
                               !.conteudo = conteudoArquivo,
                               !.anterior = anterior]
  /\ res' = SemResposta
  /\ UNCHANGED <<senhas, rev, clientes, config, gets, documentos, cobrancas, arquivos>>

\* A request that uploads a file.
ProcessarRetorno(conteudoArquivo, regs, sep, final) ==
  ProcessarRetornoCom(conteudoArquivo, regs, sep, final, SemAnterior)

\* The request that uploads again the content of the run just answered.
ProcessarRetornoDeNovo ==
  /\ retorno.pc = "respondido"
  /\ res.rota = "processar-retorno" /\ res.status = 200
  /\ ProcessarRetornoCom(obs.conteudo, obs.regs, obs.sep, obs.final, Anterior)

\* The missing file taken for an empty one: the handler goes on and answers
\* with a tally of zeros.
ProcessarRetornoSemArquivoSegue ==
  /\ rev = "sqlite"
  /\ retorno.pc # "aguardando"
  /\ res' = Resposta("processar-retorno", 200,
                     [processados |-> 0, pagos |-> 0, rejeitados |-> 0,
                      falhas |-> 0], <<>>)
  /\ retorno' = [RetornoOcioso EXCEPT !.pc = "respondido"]
  /\ obs' = ObsInicial
  /\ UNCHANGED <<senhas, rev, clientes, config, gets, documentos, cobrancas, arquivos>>

\* if (!req.file): 400, nothing else happens.
ProcessarRetornoSemArquivo ==
  /\ rev = "sqlite"
  /\ retorno.pc # "aguardando"
  /\ res' = Resposta("processar-retorno", 400, <<>>, <<>>)
  /\ retorno' = RetornoOcioso
  /\ obs' = ObsInicial
  /\ UNCHANGED <<senhas, rev, clientes, config, gets, documentos, cobrancas, arquivos>>

\* The UPDATE restricted to rows still pending:
\* ... WHERE id = ? AND status = 'Pendente'
UpdateStatusSePendente(tabela, id, novoStatus) ==
  IF id \in DOMAIN tabela /\ tabela[id].status = Pendente
  THEN [tabela EXCEPT ![id].status = novoStatus]
  ELSE tabela

\* UPDATE cobrancas SET status = ? WHERE id = ?
UpdateStatus(tabela, id, novoStatus) ==
  IF id \in DOMAIN tabela
  THEN [tabela EXCEPT ![id].status = novoStatus]
  ELSE tabela

\* The callback of an UPDATE without its WHERE clause: every row gets the
\* line's status.
CallbackUpdateSemWhere(i, err) ==
  /\ retorno.pc = "aguardando"
  /\ i \in DOMAIN retorno.promises
  /\ retorno.promises[i].run
  /\ retorno.promises[i].estado = "pending"
  /\ LET p == retorno.promises[i]
         existe == p.identificadorCobranca \in DOMAIN cobrancas
     IN /\ cobrancas' =
             IF err THEN cobrancas
             ELSE [id \in DOMAIN cobrancas |->
                     [cobrancas[id] EXCEPT !.status = p.novoStatus]]
        /\ retorno' =
             [retorno EXCEPT
                !.promises[i].estado = "resolved",
                !.errosDeAtualizacao = IF err THEN @ + 1 ELSE @]
        /\ obs' =
             [obs EXCEPT
                !.comErro = IF err THEN @ \cup {i} ELSE @,
                !.aplicadas = IF ~err /\ existe THEN @ \cup {i} ELSE @,
                !.semLinha = IF ~err /\ ~existe THEN @ \cup {i} ELSE @]
  /\ UNCHANGED <<senhas, rev, clientes, config, gets, documentos, arquivos, res>>

\* The callback of line i's db.run.  err: the statement failed and wrote
\* nothing; otherwise it ran, on the row with that id if there is one.
CallbackUpdate(i, err) ==
  /\ retorno.pc = "aguardando"
  /\ i \in DOMAIN retorno.promises
  /\ retorno.promises[i].run
  /\ retorno.promises[i].estado = "pending"
  /\ LET p == retorno.promises[i]
         existe == p.identificadorCobranca \in DOMAIN cobrancas
     IN /\ cobrancas' =
             IF err THEN cobrancas
             ELSE UpdateStatus(cobrancas, p.identificadorCobranca, p.novoStatus)
        /\ retorno' =
             [retorno EXCEPT
                !.promises[i].estado = "resolved",
                !.errosDeAtualizacao = IF err THEN @ + 1 ELSE @]
        /\ obs' =
             [obs EXCEPT
                !.comErro = IF err THEN @ \cup {i} ELSE @,
                !.aplicadas = IF ~err /\ existe THEN @ \cup {i} ELSE @,
                !.semLinha = IF ~err /\ ~existe THEN @ \cup {i} ELSE @]
  /\ UNCHANGED <<senhas, rev, clientes, config, gets, documentos, arquivos, res>>

\* The tally with the number of lines of the file as its first count.
DetalhesPorLinhas(r) ==
  [processados |-> Len(r.linhas), pagos |-> r.pagos,
   rejeitados |-> r.rejeitados, falhas |-> r.errosDeAtualizacao]

Detalhes(r) ==
  [processados |-> r.processados, pagos |-> r.pagos,
   rejeitados |-> r.rejeitados, falhas |-> r.errosDeAtualizacao]

\* After the await: the 200 response with the tally.
ResponderRetorno ==
  /\ retorno.pc = "aguardando"
  /\ PromiseAll(retorno.promises)
  /\ retorno' = [retorno EXCEPT !.pc = "respondido"]
  /\ res' = Resposta("processar-retorno", 200, Detalhes(retorno), <<>>)
  /\ UNCHANGED <<senhas, rev, clientes, config, gets, documentos, cobrancas, arquivos, obs>>

\* ------------------------------------------------------ request bodies

\* A field of a JSON body is the set of its values: empty when the field is
\* absent (undefined), one value otherwise.
Ausente == {}
Valor(campo) == CHOOSE v \in campo : TRUE

\* !campo in a JavaScript condition, for a text field and for a number.
Falsy(campo) == campo = Ausente \/ campo = {<<>>}
FalsyNumero(campo) == campo = Ausente \/ campo = {0}

\* An undefined parameter is bound as NULL by both database drivers.
Bind(campo) == IF campo = Ausente THEN Null ELSE Valor(campo)

K1 == <<"k", "1">>
D1 == <<"d", "1">>
\* A status text a client can send that the server does not know.
Cancelado == <<"C", "a", "n", "c", "e", "l", "a", "d", "o">>

\* ------------------------------------------------ /api/cobrancas (sqlite, pg)

\* The fields each handler destructures from req.body.
CorposPutSqlite ==
  [clienteId : {Ausente, {K1}},
   valor : {Ausente, {0}, {150}},
   vencimento : {{D1}},
   status : {Ausente, {Pendente}, {Pago}},
   nsa_remessa : {Ausente, {Nsa008}}]

CorposPostSqlite ==
  [id : {Ausente, {C1}, {C2}},
   clienteId : {Ausente, {K1}},
   valor : {{0}, {150}},
   vencimento : {{D1}},
   status : {Ausente, {Pago}},
   nsa_remessa : {Ausente, {Nsa008}}]

CorposCobrancaPg ==
  [clienteId : {Ausente, {K1}},
   descricao : {Ausente, {<<"m">>}},
   valor : {{0}, {150}},
   vencimento : {{D1}},
   status : {Ausente, {Pendente}, {Pago}, {Cancelado}}]

\* status || 'Pendente'
StatusOuPendente(status) == IF Falsy(status) THEN Pendente ELSE Valor(status)

\* POST /api/cobrancas of the sqlite revision: the client gives the id.
PostCobrancaSqlite(body) ==
  /\ rev = "sqlite"
  /\ IF Falsy(body.id) \/ Falsy(body.clienteId) \/ FalsyNumero(body.valor)
          \/ Falsy(body.vencimento)
     THEN /\ res' = Resposta("post-cobranca", 400, <<>>, <<>>)
          /\ UNCHANGED cobrancas
     ELSE IF Valor(body.id) \in DOMAIN cobrancas
     THEN \* PRIMARY KEY: the INSERT fails
          /\ res' = Resposta("post-cobranca", 400, <<>>, <<>>)
          /\ UNCHANGED cobrancas
     ELSE /\ cobrancas' =
               [id \in DOMAIN cobrancas \cup {Valor(body.id)} |->
                  IF id \in DOMAIN cobrancas THEN cobrancas[id]
                  ELSE [clienteId |-> Valor(body.clienteId),
                        valor |-> Valor(body.valor),
                        vencimento |-> Valor(body.vencimento),
                        status |-> StatusOuPendente(body.status),
                        statusRemessa |-> SemColuna,
                        nsa_remessa |-> Bind(body.nsa_remessa)]]
          /\ res' = Resposta("post-cobranca", 201, <<>>, <<>>)
  /\ UNCHANGED <<senhas, rev, clientes, config, gets, documentos, arquivos, retorno, obs>>

\* POST /api/cobrancas of the pg revision: the id is a fresh uuid.
PostCobrancaPg(body, uuid) ==
  /\ rev = "pg"
  /\ uuid \notin DOMAIN cobrancas
  /\ IF Falsy(body.clienteId) \/ Falsy(body.descricao) \/ FalsyNumero(body.valor)
          \/ Falsy(body.vencimento)
     THEN /\ res' = Resposta("post-cobranca", 400, <<>>, <<>>)
          /\ UNCHANGED cobrancas
     ELSE /\ cobrancas' =
               [id \in DOMAIN cobrancas \cup {uuid} |->
                  IF id \in DOMAIN cobrancas THEN cobrancas[id]
                  ELSE [clienteId |-> Valor(body.clienteId),
                        valor |-> Valor(body.valor),
                        vencimento |-> Valor(body.vencimento),
                        status |-> StatusOuPendente(body.status),
                        statusRemessa |-> NA,
                        nsa_remessa |-> Null]]
          /\ res' = Resposta("post-cobranca", 201, <<>>, <<>>)
  /\ UNCHANGED <<senhas, rev, clientes, config, gets, documentos, arquivos, retorno, obs>>

\* PUT /api/cobrancas/:id of the sqlite revision.
PutCobrancaSqlite(id, body) ==
  /\ rev = "sqlite"
  /\ IF Falsy(body.clienteId) \/ FalsyNumero(body.valor) \/ Falsy(body.vencimento)
     THEN /\ res' = Resposta("put-cobranca", 400, <<>>, <<>>)
          /\ UNCHANGED cobrancas
     ELSE IF id \notin DOMAIN cobrancas
     THEN /\ res' = Resposta("put-cobranca", 404, <<>>, <<>>)
          /\ UNCHANGED cobrancas
     ELSE IF body.status = Ausente
     THEN \* status TEXT NOT NULL: the UPDATE fails
          /\ res' = Resposta("put-cobranca", 400, <<>>, <<>>)
          /\ UNCHANGED cobrancas
     ELSE /\ cobrancas' =
               [cobrancas EXCEPT
                  ![id].clienteId = Valor(body.clienteId),
                  ![id].valor = Valor(body.valor),
                  ![id].vencimento = Valor(body.vencimento),
                  ![id].status = Valor(body.status),
                  ![id].nsa_remessa = Bind(body.nsa_remessa)]
          /\ res' = Resposta("put-cobranca", 200, <<>>, <<>>)
  /\ UNCHANGED <<senhas, rev, clientes, config, gets, documentos, arquivos, retorno, obs>>

\* PUT /api/cobrancas/:id of the pg revision.  The schema of its table is
\* not in the repository: a NULL status is either stored or refused by the
\* table (aceitaNull).
PutCobrancaPg(id, body, aceitaNull) ==
  /\ rev = "pg"
  /\ IF Falsy(body.clienteId) \/ Falsy(body.descricao) \/ FalsyNumero(body.valor)
          \/ Falsy(body.vencimento)
     THEN /\ res' = Resposta("put-cobranca", 400, <<>>, <<>>)
          /\ UNCHANGED cobrancas
     ELSE IF id \notin DOMAIN cobrancas
     THEN /\ res' = Resposta("put-cobranca", 404, <<>>, <<>>)
          /\ UNCHANGED cobrancas
     ELSE IF body.status = Ausente /\ ~aceitaNull
     THEN /\ res' = Resposta("put-cobranca", 500, <<>>, <<>>)
          /\ UNCHANGED cobrancas
     ELSE /\ cobrancas' =
               [cobrancas EXCEPT
                  ![id].clienteId = Valor(body.clienteId),
                  ![id].valor = Valor(body.valor),
                  ![id].vencimento = Valor(body.vencimento),
                  ![id].status = Bind(body.status)]
          /\ res' = Resposta("put-cobranca", 200, <<>>, <<>>)
  /\ UNCHANGED <<senhas, rev, clientes, config, gets, documentos, arquivos, retorno, obs>>

\* DELETE FROM cobrancas WHERE id IN (ids)
DeleteIn(tabela, ids) == [id \in DOMAIN tabela \ ids |-> tabela[id]]

\* DELETE /api/cobrancas/:id: 404 when no row was deleted, except in the
\* supabase revision, which answers 204 either way.
DeleteCobranca(id) ==
  /\ cobrancas' = DeleteIn(cobrancas, {id})
  /\ res' = Resposta("delete-cobranca",
                     IF id \in DOMAIN cobrancas \/ rev = "supabase"
                     THEN 204 ELSE 404,
                     <<>>, id)
  /\ UNCHANGED <<senhas, rev, clientes, config, gets, documentos, arquivos, retorno, obs>>

\* ---------------------------------------------- /api/marcar-remessa

CorposMarcar ==
  [idsParaMarcar : {Ausente, {{}}, {{C1}}, {{C1, C2}}, {{C1, C9}}, {{C9}}},
   nsaDaRemessa : {Ausente, {<<>>}, {Nsa007}, {Nsa008}}]

\* Rows an UPDATE ... WHERE id IN (ids) changes.
LinhasEmIn(tabela, ids) == DOMAIN tabela \cap ids

\* sqlite: !idsParaMarcar || idsParaMarcar.length === 0 || !nsaDaRemessa
InvalidoMarcarSqlite(body) ==
  \/ body.idsParaMarcar = Ausente
  \/ Valor(body.idsParaMarcar) = {}
  \/ Falsy(body.nsaDaRemessa)

\* pg: !Array.isArray (idsParaMarcar) || !nsaDaRemessa
InvalidoMarcarPg(body) ==
  \/ body.idsParaMarcar = Ausente
  \/ Falsy(body.nsaDaRemessa)

\* UPDATE cobrancas SET nsa_remessa = ? WHERE id IN (...)
MarcarSqlite(tabela, ids, nsa) ==
  [id \in DOMAIN tabela |->
     IF id \in LinhasEmIn(tabela, ids)
     THEN [tabela[id] EXCEPT !.nsa_remessa = nsa]
     ELSE tabela[id]]

\* UPDATE cobrancas SET nsa_remessa = $1, "statusRemessa" = 'Processado'
\* WHERE id IN (...)
MarcarPg(tabela, ids, nsa) ==
  [id \in DOMAIN tabela |->
     IF id \in LinhasEmIn(tabela, ids)
     THEN [tabela[id] EXCEPT !.nsa_remessa = nsa,
                             !.statusRemessa = Processado]
     ELSE tabela[id]]

MarcarRemessaSqlite(body) ==
  /\ rev = "sqlite"
  /\ IF InvalidoMarcarSqlite(body)
     THEN /\ res' = Resposta("marcar-remessa", 400, <<>>, body)
          /\ UNCHANGED cobrancas
     ELSE LET ids == Valor(body.idsParaMarcar)
              nsa == Valor(body.nsaDaRemessa)
          IN /\ cobrancas' = MarcarSqlite(cobrancas, ids, nsa)
             /\ res' = Resposta("marcar-remessa", 200,
                          [total |-> Cardinality(LinhasEmIn(cobrancas, ids))],
                          body)
  /\ UNCHANGED <<senhas, rev, clientes, config, gets, documentos, arquivos, retorno, obs>>

\* With an empty array the statement reads WHERE id IN (), which the
\* database refuses: the catch block answers 500.
MarcarRemessaPg(body) ==
  /\ rev = "pg"
  /\ IF InvalidoMarcarPg(body)
     THEN /\ res' = Resposta("marcar-remessa", 400, <<>>, body)
          /\ UNCHANGED cobrancas
     ELSE IF Valor(body.idsParaMarcar) = {}
     THEN /\ res' = Resposta("marcar-remessa", 500, <<>>, body)
          /\ UNCHANGED cobrancas
     ELSE LET ids == Valor(body.idsParaMarcar)
              nsa == Valor(body.nsaDaRemessa)
          IN /\ cobrancas' = MarcarPg(cobrancas, ids, nsa)
             /\ res' = Resposta("marcar-remessa", 200,
                          [total |-> Cardinality(LinhasEmIn(cobrancas, ids))],
                          body)
  /\ UNCHANGED <<senhas, rev, clientes, config, gets, documentos, arquivos, retorno, obs>>

\* ------------------------------------- /api/arquivar-remessa (supabase)

\* A period label, as <<year, month>>.
Periodos == {<<2024, 12>>, <<2025, 1>>}

\* The body: the snapshots to archive (each is known by its id; the handler
\* reads nothing else of it) and the period label the client sends.
CorposArquivar ==
  [cobrancasParaArquivar : {Ausente, {{}}, {{C1}}, {{C1, C2}}, {{C2, C9}}},
   periodo : {{p} : p \in Periodos}]

\* cobrancasParaArquivar.map (c => c.id)
IdsParaRemover(cobrancasParaArquivar) == cobrancasParaArquivar

\* `Falha ao deletar cobranças originais: ${deleteError.message}`: the text
\* the handler writes and the text the database client gives for its error.
FalhaAoDeletar == <<"Falha ao deletar cobrancas originais: ">>
ErroDoBanco == <<"deleteError.message">>

\* The handler answering 200 whatever the delete did.
ArquivarRemessaEngoleErro(body, deleteError) ==
  /\ rev = "supabase"
  /\ IF body.cobrancasParaArquivar = Ausente
          \/ Valor(body.cobrancasParaArquivar) = {}
     THEN /\ res' = Resposta("arquivar-remessa", 400, <<>>, body)
          /\ UNCHANGED cobrancas
     ELSE /\ cobrancas' =
               IF deleteError THEN cobrancas
               ELSE DeleteIn(cobrancas, Valor(body.cobrancasParaArquivar))
          /\ res' = Resposta("arquivar-remessa", 200, <<>>, body)
  /\ UNCHANGED <<senhas, rev, clientes, config, gets, documentos, arquivos, retorno, obs>>

\* deleteError: the repository's delete failed.  The handler writes no file:
\* its archiving step is commented out and it never reads the period.
ArquivarRemessa(body, deleteError) ==
  /\ rev = "supabase"
  /\ IF body.cobrancasParaArquivar = Ausente
          \/ Valor(body.cobrancasParaArquivar) = {}
     THEN /\ res' = Resposta("arquivar-remessa", 400, <<>>, body)
          /\ UNCHANGED cobrancas
     ELSE IF deleteError
     THEN /\ res' = Resposta("arquivar-remessa", 500,
                              [message |-> <<FalhaAoDeletar, ErroDoBanco>>],
                              body)
          /\ UNCHANGED cobrancas
     ELSE /\ cobrancas' =
               DeleteIn(cobrancas,
                        IdsParaRemover(Valor(body.cobrancasParaArquivar)))
          /\ res' = Resposta("arquivar-remessa", 200, <<>>, body)
  /\ UNCHANGED <<senhas, rev, clientes, config, gets, documentos, arquivos, retorno, obs>>

\* ------------------------------------------------ /api/listar-arquivos

\* A file name, as its parts.
NomeRemessa(periodo) == <<"remessa_", periodo, ".json">>
NomeBanco == <<"database", ".sqlite">>

\* f.startsWith ('remessa_') && f.endsWith ('.json')
EhRemessa(nome) == nome[1] = "remessa_" /\ nome[Len(nome)] = ".json"

\* Names compare as their period labels do (the labels are zero-padded).
NomeMaior(a, b) ==
  a[2][1] > b[2][1] \/ (a[2][1] = b[2][1] /\ a[2][2] > b[2][2])

\* files.sort ().reverse ()
RECURSIVE OrdenarDesc(_)
OrdenarDesc(nomes) ==
  IF nomes = {} THEN <<>>
  ELSE LET maior == CHOOSE a \in nomes : \A b \in nomes \ {a} : NomeMaior(a, b)
       IN <<maior>> \o OrdenarDesc(nomes \ {maior})

\* The response of GET /api/listar-arquivos for a data directory.
ListarArquivos(dir) == OrdenarDesc({nome \in dir : EhRemessa(nome)})

\* ------------------------------------------------------ uploaded files

LarguraId == 16

PadRight(s, n) == s \o [i \in 1..(n - Len(s)) |-> " "]

\* How one record of a return file is written: a marker, the identifier
\* (padded to its column or not) and the occurrence code.
Reg(marca, id, cod, pad) == [marca |-> marca, id |-> id, cod |-> cod, pad |-> pad]

Texto(reg) ==
  reg.marca \o (IF reg.pad THEN PadRight(reg.id, LarguraId) ELSE reg.id)
    \o reg.cod

Registros ==
  { Reg(<<"T">>, C1, <<"0", "0">>, TRUE),
    Reg(<<"T">>, C2, <<"0", "7">>, TRUE),
    Reg(<<"T">>, C9, <<"P", "G">>, TRUE),
    Reg(<<"T">>, C1, <<"0", "7">>, TRUE),
    Reg(<<"T">>, C1, <<>>, TRUE),
    Reg(<<"T">>, C2, <<>>, FALSE),
    Reg(<<"T">>, <<>>, <<"0", "0">>, TRUE),
    Reg(<<"H">>, C1, <<"0", "0">>, TRUE),
    Reg(<<>>, <<>>, <<>>, TRUE) }

Separadores == {<<LF>>, <<CR, LF>>}

RECURSIVE Juntar(_, _)
Juntar(textos, sep) ==
  IF textos = <<>> THEN <<>>
  ELSE IF Len(textos) = 1 THEN Head(textos)
  ELSE Head(textos) \o sep \o Juntar(Tail(textos), sep)

\* The uploaded text: the records joined by one separator, with or without
\* a separator after the last one.
Conteudo(regs, sep, final) ==
  Juntar([i \in DOMAIN regs |-> Texto(regs[i])], sep)
    \o (IF final THEN sep ELSE <<>>)

SeqsAte(S, n) == UNION {[1..k -> S] : k \in 0..n}

\* ------------------------------------------- customers, configuration, files

\* A row of clientes.  The sqlite table has no codigo column.  email stands
\* for the optional columns (email, telefone, contaCorrente), which every
\* handler treats alike.
Cliente(nome, codigo, email) ==
  [nome |-> nome, codigo |-> codigo, email |-> email]

K2 == <<"k", "2">>
Ana == <<"A", "n", "a">>
Cod1 == <<"0", "1">>
Email1 == <<"a", "@", "x">>

\* The customer the charges of the initial tables belong to.
ClientesIniciais == [id \in {K1} |-> Cliente(Ana, Cod1, Null)]

\* The configuration table without a row.
SemConfig == [id \in {} |-> 0]

\* An archive file written before the run holds one snapshot.
DocumentosIniciais(dir) == [nome \in {f \in dir : EhRemessa(f)} |-> <<C9>>]

\* ------------------------------------------------------------ /api/clientes

\* The revisions with customer routes; "pgclient" is src/server.js lines 1-169.
RevisoesClientes == {"pgclient", "sqlite", "pg", "supabase"}

IdsClientes == {K1, K2}

CorposCliente ==
  [id : {Ausente, {K1}, {K2}},
   nome : {Ausente, {<<>>}, {Ana}, {<<"B", "i", "a">>}},
   codigo : {Ausente, {<<>>}, {Cod1}},
   email : {Ausente}]

\* The same bodies with and without the optional fields.
CorposClienteCompletos ==
  [id : {Ausente},
   nome : {Ausente, {Ana}, {<<"B", "i", "a">>}},
   codigo : {Ausente, {<<>>}, {Cod1}},
   email : {Ausente, {<<>>}, {Email1}}]

\* if (!nome): the validation of the pgclient revision and of the sqlite PUT.
InvalidoClienteNome(body) == Falsy(body.nome)

\* if (!id || !nome): the validation of the sqlite POST.
InvalidoClienteSqlite(body) == Falsy(body.id) \/ Falsy(body.nome)

\* if (!nome || !codigo): the validation of the pg revision.
InvalidoClientePg(body) == Falsy(body.nome) \/ Falsy(body.codigo)

\* INSERT INTO clientes
InserirCliente(tabela, id, linha) ==
  [k \in DOMAIN tabela \cup {id} |-> IF k = id THEN linha ELSE tabela[k]]

\* POST /api/clientes of the pgclient revision: the database gives the id.
PostClientePgClient(body, novoId) ==
  /\ rev = "pgclient"
  /\ novoId \notin DOMAIN clientes
  /\ IF InvalidoClienteNome(body)
     THEN /\ res' = Resposta("post-cliente", 400, <<>>, body)
          /\ UNCHANGED clientes
     ELSE /\ clientes' =
               InserirCliente(clientes, novoId,
                              Cliente(Valor(body.nome), SemColuna,
                                      Bind(body.email)))
          /\ res' = Resposta("post-cliente", 201, <<>>, body)
  /\ UNCHANGED <<senhas, rev, cobrancas, arquivos, retorno, obs, config, gets,
                 documentos>>

\* POST /api/clientes of the sqlite revision: the client gives the id.
PostClienteSqlite(body) ==
  /\ rev = "sqlite"
  /\ IF InvalidoClienteSqlite(body)
     THEN /\ res' = Resposta("post-cliente", 400, <<>>, body)
          /\ UNCHANGED clientes
     ELSE IF Valor(body.id) \in DOMAIN clientes
     THEN \* PRIMARY KEY: the INSERT fails
          /\ res' = Resposta("post-cliente", 400, <<>>, body)
          /\ UNCHANGED clientes
     ELSE /\ clientes' =
               InserirCliente(clientes, Valor(body.id),
                              Cliente(Valor(body.nome), SemColuna,
                                      Bind(body.email)))
          /\ res' = Resposta("post-cliente", 201, <<>>, body)
  /\ UNCHANGED <<senhas, rev, cobrancas, arquivos, retorno, obs, config, gets,
                 documentos>>

\* POST /api/clientes of the pg revision: the id is a fresh uuid.
PostClientePg(body, uuid) ==
  /\ rev = "pg"
  /\ uuid \notin DOMAIN clientes
  /\ IF InvalidoClientePg(body)
     THEN /\ res' = Resposta("post-cliente", 400, <<>>, body)
          /\ UNCHANGED clientes
     ELSE /\ clientes' =
               InserirCliente(clientes, uuid,
                              Cliente(Valor(body.nome), Valor(body.codigo),
                                      Bind(body.email)))
          /\ res' = Resposta("post-cliente", 201, <<>>, body)
  /\ UNCHANGED <<senhas, rev, cobrancas, arquivos, retorno, obs, config, gets,
                 documentos>>

\* PUT /api/clientes/:id of the pgclient and sqlite revisions.
PutClienteNome(id, body) ==
  /\ rev \in {"pgclient", "sqlite"}
  /\ IF InvalidoClienteNome(body)
     THEN /\ res' = Resposta("put-cliente", 400, <<>>, body)
          /\ UNCHANGED clientes
     ELSE IF id \notin DOMAIN clientes
     THEN /\ res' = Resposta("put-cliente", 404, <<>>, body)
          /\ UNCHANGED clientes
     ELSE /\ clientes' = [clientes EXCEPT ![id].nome = Valor(body.nome),
                                          ![id].email = Bind(body.email)]
          /\ res' = Resposta("put-cliente", 200, <<>>, body)
  /\ UNCHANGED <<senhas, rev, cobrancas, arquivos, retorno, obs, config, gets,
                 documentos>>

\* PUT /api/clientes/:id of the pg revision.
PutClientePg(id, body) ==
  /\ rev = "pg"
  /\ IF InvalidoClientePg(body)
     THEN /\ res' = Resposta("put-cliente", 400, <<>>, body)
          /\ UNCHANGED clientes
     ELSE IF id \notin DOMAIN clientes
     THEN /\ res' = Resposta("put-cliente", 404, <<>>, body)
          /\ UNCHANGED clientes
     ELSE /\ clientes' = [clientes EXCEPT ![id].nome = Valor(body.nome),
                                          ![id].codigo = Valor(body.codigo),
                                          ![id].email = Bind(body.email)]
          /\ res' = Resposta("put-cliente", 200, <<>>, body)
  /\ UNCHANGED <<senhas, rev, cobrancas, arquivos, retorno, obs, config, gets,
                 documentos>>

\* The characters of the customer names, in code-point order.
Alfabeto == <<"A", "B", "a", "i", "n">>
Ordem(c) == CHOOSE i \in DOMAIN Alfabeto : Alfabeto[i] = c

\* a <= b as ORDER BY compares two texts.
RECURSIVE TextoMenorOuIgual(_, _)
TextoMenorOuIgual(a, b) ==
  IF a = <<>> THEN TRUE
  ELSE IF b = <<>> THEN FALSE
  ELSE IF Head(a) = Head(b) THEN TextoMenorOuIgual(Tail(a), Tail(b))
  ELSE Ordem(Head(a)) < Ordem(Head(b))

\* ORDER BY nome ASC: the orders in which the rows of a table can come;
\* rows of equal nome come in either order.
OrdenadasPorNome(tabela) ==
  {o \in [1..Cardinality(DOMAIN tabela) -> DOMAIN tabela] :
     /\ \A i, j \in DOMAIN o : o[i] = o[j] => i = j
     /\ \A i, j \in DOMAIN o :
          i < j => TextoMenorOuIgual(tabela[o[i]].nome, tabela[o[j]].nome)}

\* The SELECT with its optional columns left out.
LinhaClienteSemOpcionais(id, linha) ==
  [id |-> id, nome |-> linha.nome, codigo |-> linha.codigo, email |-> Null]

\* SELECT id, nome, email, telefone, codigo, "contaCorrente": one row of the
\* result.
LinhaCliente(id, linha) ==
  [id |-> id, nome |-> linha.nome, codigo |-> linha.codigo,
   email |-> linha.email]

\* GET /api/clientes of the pg revision.
GetClientesPg ==
  /\ rev = "pg"
  /\ \E o \in OrdenadasPorNome(clientes) :
       res' = Resposta("get-clientes", 200,
                       [i \in DOMAIN o |-> LinhaCliente(o[i], clientes[o[i]])],
                       <<>>)
  /\ UNCHANGED <<senhas, rev, cobrancas, arquivos, retorno, obs, clientes, config,
                 gets, documentos>>

\* The charges that reference customer id.
CobrancasDe(tabela, id) == {c \in DOMAIN tabela : tabela[c].clienteId = id}

\* DELETE /api/clientes/:id of the sqlite revision.  The table declares ON
\* DELETE CASCADE, which SQLite applies only when foreign keys are switched
\* on; the server never sets the pragma, so the build decides (foreignKeys).
DeleteClienteSqlite(id, foreignKeys) ==
  /\ rev = "sqlite"
  /\ IF id \notin DOMAIN clientes
     THEN /\ res' = Resposta("delete-cliente", 404, <<>>, id)
          /\ UNCHANGED <<clientes, cobrancas>>
     ELSE /\ clientes' = DeleteIn(clientes, {id})
          /\ cobrancas' =
               IF foreignKeys THEN DeleteIn(cobrancas, CobrancasDe(cobrancas, id))
               ELSE cobrancas
          /\ res' = Resposta("delete-cliente", 204, <<>>, id)
  /\ UNCHANGED <<senhas, rev, arquivos, retorno, obs, config, gets, documentos>>

\* What the tables of the supabase project do with the charges of a deleted
\* customer; the project's schema is not in the repository.
Politicas == {"restrict", "cascade", "nenhuma"}

\* DELETE /api/clientes/:id of the supabase revision: 400 when the database
\* refuses, 204 otherwise, also when no row had that id.
DeleteClienteSupabase(id, politica) ==
  /\ rev = "supabase"
  /\ IF politica = "restrict" /\ CobrancasDe(cobrancas, id) # {}
     THEN /\ res' = Resposta("delete-cliente", 400, <<>>, id)
          /\ UNCHANGED <<clientes, cobrancas>>
     ELSE /\ clientes' = DeleteIn(clientes, {id})
          /\ cobrancas' =
               IF politica = "cascade"
               THEN DeleteIn(cobrancas, CobrancasDe(cobrancas, id))
               ELSE cobrancas
          /\ res' = Resposta("delete-cliente", 204, <<>>, id)
  /\ UNCHANGED <<senhas, rev, arquivos, retorno, obs, config, gets, documentos>>

\* ------------------------------------------------------- /api/config (pg)

\* Largest number of GET /api/config requests in flight together.
NumGets == 3

\* Largest value a client writes to ultimoNsaSequencial.
MaxNsa == 2

ParteFixa04 == <<"0", "4">>

\* A row of configuracoes.
Configuracao(ultimoNsaSequencial, parteFixaNsa) ==
  [ultimoNsaSequencial |-> ultimoNsaSequencial, parteFixaNsa |-> parteFixaNsa]

\* The row the handler inserts, and the object it answers with when the
\* second SELECT finds nothing.
ConfigPadrao == Configuracao(0, ParteFixa04)

\* A request that has not been made, and the requests of a run.
GetOcioso == [pc |-> "inicio", status |-> 0, corpo |-> ConfigPadrao, criou |-> FALSE]
GetsIniciais == [i \in 1..NumGets |-> GetOcioso]

\* The INSERT without the fixed id and its ON CONFLICT clause: every call
\* adds a row under the next id.
InserirNovaLinha(tabela) ==
  [id \in DOMAIN tabela \cup {Cardinality(DOMAIN tabela) + 1} |->
     IF id \in DOMAIN tabela THEN tabela[id] ELSE ConfigPadrao]

\* INSERT INTO configuracoes ... VALUES (1, 0, '04') ON CONFLICT (id) DO NOTHING
InserirPadrao(tabela) ==
  IF 1 \in DOMAIN tabela THEN tabela
  ELSE [id \in DOMAIN tabela \cup {1} |->
          IF id \in DOMAIN tabela THEN tabela[id] ELSE ConfigPadrao]

\* Request i: the first SELECT ... WHERE id = 1 and, when it finds the row,
\* the response.
GetConfigSelect(i) ==
  /\ rev = "pg"
  /\ i \in DOMAIN gets
  /\ gets[i].pc = "inicio"
  /\ IF 1 \in DOMAIN config
     THEN /\ gets' = [gets EXCEPT ![i].pc = "fim", ![i].status = 200,
                                  ![i].corpo = config[1]]
          /\ res' = Resposta("get-config", 200, config[1], i)
     ELSE /\ gets' = [gets EXCEPT ![i].pc = "insert"]
          /\ UNCHANGED res
  /\ UNCHANGED <<senhas, rev, cobrancas, arquivos, retorno, obs, clientes, config,
                 documentos>>

\* Request i: the INSERT after an empty first SELECT.
GetConfigInsert(i) ==
  /\ i \in DOMAIN gets
  /\ gets[i].pc = "insert"
  /\ config' = InserirPadrao(config)
  /\ gets' = [gets EXCEPT ![i].pc = "retry",
                          ![i].criou = (config' # config)]
  /\ UNCHANGED <<senhas, rev, cobrancas, arquivos, retorno, res, obs, clientes,
                 documentos>>

\* Request i: the second SELECT and the response, retryResult.rows[0] or
\* the default object.
GetConfigRetry(i) ==
  /\ i \in DOMAIN gets
  /\ gets[i].pc = "retry"
  /\ LET corpo == IF 1 \in DOMAIN config THEN config[1] ELSE ConfigPadrao
     IN /\ gets' = [gets EXCEPT ![i].pc = "fim", ![i].status = 200,
                                ![i].corpo = corpo]
        /\ res' = Resposta("get-config", 200, corpo, i)
  /\ UNCHANGED <<senhas, rev, cobrancas, arquivos, retorno, obs, clientes, config,
                 documentos>>

\* Request i: one of its queries fails and the catch block answers 500.
GetConfigErro(i) ==
  /\ rev = "pg"
  /\ i \in DOMAIN gets
  /\ gets[i].pc \in {"inicio", "insert", "retry"}
  /\ gets' = [gets EXCEPT ![i].pc = "fim", ![i].status = 500]
  /\ res' = Resposta("get-config", 500, <<>>, i)
  /\ UNCHANGED <<senhas, rev, cobrancas, arquivos, retorno, obs, clientes, config,
                 documentos>>

\* The body of PUT /api/config/:id.
CorposConfig == [ultimoNsaSequencial : {Ausente} \cup {{n} : n \in 0..MaxNsa}]

\* The PUT as an upsert: a missing row is created instead of answered 404.
PutConfigPgUpsert(id, body) ==
  /\ rev = "pg"
  /\ IF body.ultimoNsaSequencial = Ausente
     THEN /\ res' = Resposta("put-config", 400, <<>>, id)
          /\ UNCHANGED config
     ELSE /\ config' =
               [k \in DOMAIN config \cup {id} |->
                  IF k = id
                  THEN Configuracao(Valor(body.ultimoNsaSequencial), ParteFixa04)
                  ELSE config[k]]
          /\ res' = Resposta("put-config", 200, config'[id], id)
  /\ UNCHANGED <<senhas, rev, cobrancas, arquivos, retorno, obs, clientes, gets,
                 documentos>>

\* PUT /api/config/:id of the pg revision.
PutConfigPg(id, body) ==
  /\ rev = "pg"
  /\ IF body.ultimoNsaSequencial = Ausente
     THEN /\ res' = Resposta("put-config", 400, <<>>, id)
          /\ UNCHANGED config
     ELSE IF id \notin DOMAIN config
     THEN /\ res' = Resposta("put-config", 404, <<>>, id)
          /\ UNCHANGED config
     ELSE /\ config' = [config EXCEPT ![id].ultimoNsaSequencial =
                                        Valor(body.ultimoNsaSequencial)]
          /\ res' = Resposta("put-config", 200, config'[id], id)
  /\ UNCHANGED <<senhas, rev, cobrancas, arquivos, retorno, obs, clientes, gets,
                 documentos>>

\* ------------------------------- /api/forgot-password, /api/reset-password

\* Largest number of POST /api/reset-password requests in flight.
NumResets == 2

U1 == <<"u", "1">>
EmailAdmin == <<"a", "d", "m", "i", "n">>
EmailOutro == <<"o", "u", "t", "r", "o">>
S0 == <<"s", "0">>
S1 == <<"s", "1">>
S2 == <<"s", "2">>
T1 == <<"t", "1">>
T2 == <<"t", "2">>
Tokens == {T1, T2}

\* bcrypt.hash (senha, 10)
Hash(senha) == <<"$", "2", "b", "$">> \o senha

UsuariosIniciais ==
  [id \in {U1} |-> [email |-> EmailAdmin, senha_hashed |-> Hash(S0)]]

\* A row of password_reset_tokens; expirado: expires_at is in the past.
Token(user_id, expirado) == [user_id |-> user_id, expirado |-> expirado]

SemTokens == [t \in {} |-> Token(U1, FALSE)]

\* No transaction is open; an open one keeps what ROLLBACK restores.
SemTransacao ==
  [aberta |-> FALSE, dono |-> 0, usuarios |-> UsuariosIniciais,
   tokens |-> SemTokens]

ResetOcioso ==
  [pc |-> "inicio", token |-> Null, hashedPassword |-> Null, userId |-> Null,
   status |-> 0]

InitSenhas ==
  /\ usuarios = UsuariosIniciais
  /\ password_reset_tokens = SemTokens
  /\ transacao = SemTransacao
  /\ resets = [r \in 1..NumResets |-> ResetOcioso]
  /\ emitidos = {}

\* The tables no password route touches.
resto ==
  <<rev, cobrancas, arquivos, retorno, obs, clientes, config, gets,
    documentos>>

CorposForgot == [email : {Ausente, {EmailAdmin}, {EmailOutro}}]

\* POST /api/forgot-password: a token of one hour for the user of the e-mail.
ForgotPassword(body, token, insertErr, emailError) ==
  /\ rev = "sqlite"
  /\ token \notin emitidos
  /\ LET users == {id \in DOMAIN usuarios :
                     body.email = {usuarios[id].email}}
     IN IF Falsy(body.email)
        THEN /\ res' = Resposta("forgot-password", 400, <<>>, body)
             /\ UNCHANGED <<password_reset_tokens, emitidos>>
        ELSE IF users = {}
        THEN /\ res' = Resposta("forgot-password", 200, <<>>, body)
             /\ UNCHANGED <<password_reset_tokens, emitidos>>
        ELSE IF insertErr
        THEN /\ res' = Resposta("forgot-password", 500, <<>>, body)
             /\ emitidos' = emitidos \cup {token}
             /\ UNCHANGED password_reset_tokens
        ELSE /\ emitidos' = emitidos \cup {token}
             /\ password_reset_tokens' =
                  [t \in DOMAIN password_reset_tokens \cup {token} |->
                     IF t = token THEN Token(CHOOSE id \in users : TRUE, FALSE)
                     ELSE password_reset_tokens[t]]
             /\ res' = Resposta("forgot-password",
                                IF emailError THEN 500 ELSE 200, <<>>, body)
  /\ UNCHANGED <<resto, usuarios, transacao, resets>>

\* The clock passes the expires_at of a token.
PassaExpiresAt(token) ==
  /\ token \in DOMAIN password_reset_tokens
  /\ ~password_reset_tokens[token].expirado
  /\ password_reset_tokens' =
       [password_reset_tokens EXCEPT ![token].expirado = TRUE]
  /\ UNCHANGED <<resto, res, usuarios, transacao, resets, emitidos>>

CorposReset ==
  [token : {Ausente, {T1}, {T2}}, newPassword : {Ausente, {S1}, {S2}}]

\* Request r answers with status and is over.
Responde(r, status) ==
  /\ resets' = [resets EXCEPT ![r].pc = "fim", ![r].status = status]
  /\ res' = Resposta("reset-password", status, <<>>, r)

\* DELETE FROM password_reset_tokens WHERE token = ?
DeleteToken(tabela, token) ==
  [t \in DOMAIN tabela \ {token} |-> tabela[t]]

\* POST /api/reset-password up to its await of bcrypt.hash: the body is
\* tested and the token is read.
ResetPasswordSelect(r, body, err) ==
  /\ rev = "sqlite"
  /\ resets[r].pc = "inicio"
  /\ IF Falsy(body.token) \/ Falsy(body.newPassword)
     THEN /\ Responde(r, 400)
          /\ UNCHANGED password_reset_tokens
     ELSE IF err
     THEN /\ Responde(r, 500)
          /\ UNCHANGED password_reset_tokens
     ELSE LET token == Valor(body.token)
          IN IF token \notin DOMAIN password_reset_tokens
             THEN /\ Responde(r, 400)
                  /\ UNCHANGED password_reset_tokens
             ELSE IF password_reset_tokens[token].expirado
             THEN /\ password_reset_tokens' =
                       DeleteToken(password_reset_tokens, token)
                  /\ Responde(r, 400)
             ELSE /\ resets' =
                       [resets EXCEPT
                          ![r] = [pc |-> "hash", token |-> token,
                                  hashedPassword |->
                                    Hash(Valor(body.newPassword)),
                                  userId |->
                                    password_reset_tokens[token].user_id,
                                  status |-> 0]]
                  /\ UNCHANGED <<res, password_reset_tokens>>
  /\ UNCHANGED <<resto, usuarios, transacao, emitidos>>

\* BEGIN TRANSACTION; it fails when the connection has a transaction open.
ResetPasswordBegin(r, beginErr) ==
  /\ resets[r].pc = "hash"
  /\ transacao.aberta => beginErr
  /\ IF beginErr
     THEN /\ Responde(r, 500)
          /\ UNCHANGED transacao
     ELSE /\ transacao' =
               [aberta |-> TRUE, dono |-> r, usuarios |-> usuarios,
                tokens |-> password_reset_tokens]
          /\ resets' = [resets EXCEPT ![r].pc = "update"]
          /\ UNCHANGED res
  /\ UNCHANGED <<resto, usuarios, password_reset_tokens, emitidos>>

\* ROLLBACK; of the open transaction.
Rollback ==
  /\ usuarios' = transacao.usuarios
  /\ password_reset_tokens' = transacao.tokens
  /\ transacao' = SemTransacao

\* UPDATE usuarios SET senha_hashed = ? WHERE id = ?
ResetPasswordUpdate(r, updateErr) ==
  /\ resets[r].pc = "update"
  /\ IF updateErr
     THEN /\ Rollback
          /\ Responde(r, 500)
     ELSE /\ usuarios' =
               [id \in DOMAIN usuarios |->
                  IF id = resets[r].userId
                  THEN [usuarios[id] EXCEPT
                          !.senha_hashed = resets[r].hashedPassword]
                  ELSE usuarios[id]]
          /\ resets' = [resets EXCEPT ![r].pc = "delete"]
          /\ UNCHANGED <<res, password_reset_tokens, transacao>>
  /\ UNCHANGED <<resto, emitidos>>

\* DELETE FROM password_reset_tokens WHERE token = ?, inside the transaction.
ResetPasswordDelete(r, deleteErr) ==
  /\ resets[r].pc = "delete"
  /\ IF deleteErr
     THEN /\ Rollback
          /\ Responde(r, 500)
     ELSE /\ password_reset_tokens' =
               DeleteToken(password_reset_tokens, resets[r].token)
          /\ resets' = [resets EXCEPT ![r].pc = "commit"]
          /\ UNCHANGED <<res, usuarios, transacao>>
  /\ UNCHANGED <<resto, emitidos>>

\* COMMIT; a failing COMMIT leaves the transaction open.
ResetPasswordCommit(r, commitErr) ==
  /\ resets[r].pc = "commit"
  /\ IF commitErr
     THEN /\ Responde(r, 500)
          /\ UNCHANGED transacao
     ELSE /\ transacao' = SemTransacao
          /\ Responde(r, 200)
  /\ UNCHANGED <<resto, usuarios, password_reset_tokens, emitidos>>

\* --------------------------------------------------------- specifications

BancosIniciais ==
  { [id \in IdsBanco |-> Linha(Pendente, SemColuna, Null)],
    [id \in {C1} |-> Linha(Pendente, SemColuna, Nsa007)] }

InitRetorno ==
  /\ rev = "sqlite"
  /\ cobrancas \in BancosIniciais
  /\ arquivos = {}
  /\ retorno = RetornoOcioso
  /\ res = SemResposta
  /\ obs = ObsInicial
  /\ clientes = ClientesIniciais
  /\ config = SemConfig
  /\ gets = <<>>
  /\ documentos = DocumentosIniciais(arquivos)
  /\ InitSenhas

NextRetorno ==
  \/ /\ retorno.pc = "ocioso"
     /\ \E regs \in SeqsAte(Registros, MaxLinhas), sep \in Separadores,
           final \in BOOLEAN :
          ProcessarRetorno(Conteudo(regs, sep, final), regs, sep, final)
  \/ /\ retorno.pc = "ocioso"
     /\ ProcessarRetornoSemArquivo
  \/ \E i \in 1..(MaxLinhas + 1), err \in BOOLEAN : CallbackUpdate(i, err)
  \/ ResponderRetorno

SpecRetorno == InitRetorno /\ [][NextRetorno]_vars

\* The same run when every issued UPDATE calls back and the handler goes on
\* once its await is over.
SpecRetornoJusto ==
  /\ SpecRetorno
  /\ WF_vars(\E i \in 1..(MaxLinhas + 1), err \in BOOLEAN : CallbackUpdate(i, err))
  /\ WF_vars(ResponderRetorno)

\* One return file processed and then, once answered, uploaded again.
RegistrosRepetidos ==
  { Reg(<<"T">>, C1, <<"0", "0">>, TRUE),
    Reg(<<"T">>, C1, <<"0", "7">>, TRUE),
    Reg(<<"T">>, C2, <<"0", "7">>, TRUE),
    Reg(<<"T">>, C9, <<"P", "G">>, TRUE) }

NextReexecucao ==
  \/ /\ retorno.pc = "ocioso"
     /\ \E regs \in SeqsAte(RegistrosRepetidos, MaxLinhas) :
          ProcessarRetorno(Conteudo(regs, <<LF>>, FALSE), regs, <<LF>>, FALSE)
  \/ /\ ~obs.anterior.houve
     /\ ProcessarRetornoDeNovo
  \/ \E i \in 1..(MaxLinhas + 1), err \in BOOLEAN : CallbackUpdate(i, err)
  \/ ResponderRetorno

SpecReexecucao == InitRetorno /\ [][NextReexecucao]_vars


\* The three revisions, each on its own table.  The return-file request of
\* this specification uploads one of two one-line files.
ArquivosDeUmaLinha ==
  { <<Reg(<<"T">>, C1, <<"0", "0">>, TRUE)>>,
    <<Reg(<<"T">>, C2, <<"0", "7">>, TRUE)>> }

Init ==
  /\ rev \in Revisoes
  /\ cobrancas \in
       { [id \in IdsBanco |-> Linha(Pendente, RemessaInicial(rev), Null)],
         [id \in {} |-> Linha(Pendente, RemessaInicial(rev), Null)] }
  /\ arquivos \in {{NomeBanco}, {NomeBanco, NomeRemessa(<<2024, 12>>)}}
  /\ retorno = RetornoOcioso
  /\ res = SemResposta
  /\ obs = ObsInicial
  /\ clientes = ClientesIniciais
  /\ config = SemConfig
  /\ gets = <<>>
  /\ documentos = DocumentosIniciais(arquivos)
  /\ InitSenhas

Next ==
  \/ \E body \in CorposPostSqlite : PostCobrancaSqlite(body)
  \/ \E body \in CorposCobrancaPg, uuid \in IdsBanco : PostCobrancaPg(body, uuid)
  \/ \E id \in IdsBanco, body \in CorposPutSqlite : PutCobrancaSqlite(id, body)
  \/ \E id \in IdsBanco, body \in CorposCobrancaPg, aceitaNull \in BOOLEAN :
       PutCobrancaPg(id, body, aceitaNull)
  \/ \E id \in IdsBanco : DeleteCobranca(id)
  \/ \E body \in CorposMarcar : MarcarRemessaSqlite(body)
  \/ \E body \in CorposMarcar : MarcarRemessaPg(body)
  \/ \E body \in CorposArquivar, deleteError \in BOOLEAN :
       ArquivarRemessa(body, deleteError)
  \/ \E regs \in ArquivosDeUmaLinha :
       ProcessarRetorno(Conteudo(regs, <<LF>>, TRUE), regs, <<LF>>, TRUE)
  \/ ProcessarRetornoSemArquivo
  \/ \E i \in 1..(MaxLinhas + 1), err \in BOOLEAN : CallbackUpdate(i, err)
  \/ ResponderRetorno

Spec == Init /\ [][Next]_vars

\* The supabase revision alone, on the tables it can hold.
TabelasSupabase ==
  UNION {[ids -> {Linha(Pendente, NA, Null), Linha(Pago, Processado, Nsa007)}] :
           ids \in SUBSET IdsBanco}

InitArquivo ==
  /\ rev = "supabase"
  /\ cobrancas \in TabelasSupabase
  /\ arquivos \in {{NomeBanco}, {NomeBanco, NomeRemessa(<<2024, 12>>)}}
  /\ retorno = RetornoOcioso
  /\ res = SemResposta
  /\ obs = ObsInicial
  /\ clientes = ClientesIniciais
  /\ config = SemConfig
  /\ gets = <<>>
  /\ documentos = DocumentosIniciais(arquivos)
  /\ InitSenhas

NextArquivo ==
  \/ \E body \in CorposArquivar, deleteError \in BOOLEAN :
       ArquivarRemessa(body, deleteError)
  \/ \E id \in IdsBanco : DeleteCobranca(id)

SpecArquivo == InitArquivo /\ [][NextArquivo]_vars

\* The pg revision answering concurrent GET /api/config requests on a
\* configuration table without a row.
InitConfigGet ==
  /\ rev = "pg"
  /\ cobrancas = [id \in IdsBanco |-> Linha(Pendente, NA, Null)]
  /\ arquivos = {}
  /\ retorno = RetornoOcioso
  /\ res = SemResposta
  /\ obs = ObsInicial
  /\ clientes = ClientesIniciais
  /\ config = SemConfig
  /\ gets = GetsIniciais
  /\ documentos = DocumentosIniciais(arquivos)
  /\ InitSenhas

NextConfigGet ==
  \/ \E i \in 1..NumGets : GetConfigSelect(i)
  \/ \E i \in 1..NumGets : GetConfigInsert(i)
  \/ \E i \in 1..NumGets : GetConfigRetry(i)
  \/ \E i \in 1..NumGets : GetConfigErro(i)

SpecConfigGet == InitConfigGet /\ [][NextConfigGet]_vars

\* The same with PUT /api/config/:id requests among the GETs, on a table
\* with or without the row of id 1.
InitConfig ==
  /\ rev = "pg"
  /\ cobrancas = [id \in IdsBanco |-> Linha(Pendente, NA, Null)]
  /\ arquivos = {}
  /\ retorno = RetornoOcioso
  /\ res = SemResposta
  /\ obs = ObsInicial
  /\ clientes = ClientesIniciais
  /\ config \in {SemConfig, [id \in {1} |-> Configuracao(1, ParteFixa04)]}
  /\ gets = GetsIniciais
  /\ documentos = DocumentosIniciais(arquivos)
  /\ InitSenhas

NextConfig ==
  \/ NextConfigGet
  \/ \E id \in {1, 2}, body \in CorposConfig : PutConfigPg(id, body)

SpecConfig == InitConfig /\ [][NextConfig]_vars

\* Every revision on its customers, with the updates of charges and of the
\* configuration.
InitClientes ==
  /\ rev \in RevisoesClientes
  /\ clientes \in
       {[id \in ids |->
           Cliente(Ana, IF rev \in {"pg", "supabase"} THEN Cod1 ELSE SemColuna,
                   Null)] :
          ids \in {{K1}, {K1, K2}}}
  /\ cobrancas \in
       IF rev = "pgclient" THEN {[id \in {} |-> Linha(Pendente, NA, Null)]}
       ELSE {[id \in ids |-> Linha(Pendente, RemessaInicial(rev), Null)] :
               ids \in {{}, {C1}}}
  /\ config \in {SemConfig, [id \in {1} |-> Configuracao(1, ParteFixa04)]}
  /\ arquivos = {}
  /\ retorno = RetornoOcioso
  /\ res = SemResposta
  /\ obs = ObsInicial
  /\ gets = <<>>
  /\ documentos = DocumentosIniciais(arquivos)
  /\ InitSenhas

NextClientes ==
  \/ \E body \in CorposCliente, novoId \in IdsClientes :
       PostClientePgClient(body, novoId)
  \/ \E body \in CorposCliente : PostClienteSqlite(body)
  \/ \E body \in CorposCliente, uuid \in IdsClientes : PostClientePg(body, uuid)
  \/ \E id \in IdsClientes, body \in CorposCliente : PutClienteNome(id, body)
  \/ \E id \in IdsClientes, body \in CorposCliente : PutClientePg(id, body)
  \/ \E id \in IdsClientes, foreignKeys \in BOOLEAN :
       DeleteClienteSqlite(id, foreignKeys)
  \/ \E id \in IdsClientes, politica \in Politicas :
       DeleteClienteSupabase(id, politica)
  \/ \E id \in IdsBanco, body \in CorposPutSqlite : PutCobrancaSqlite(id, body)
  \/ \E id \in IdsBanco, body \in CorposCobrancaPg, aceitaNull \in BOOLEAN :
       PutCobrancaPg(id, body, aceitaNull)
  \/ \E id \in {1, 2}, body \in CorposConfig : PutConfigPg(id, body)
  \/ \E id \in IdsBanco : rev # "pgclient" /\ DeleteCobranca(id)

SpecClientes == InitClientes /\ [][NextClientes]_vars

\* The pg revision creating, updating and listing its customers.
InitListagem ==
  /\ rev = "pg"
  /\ clientes \in {[id \in {} |-> Cliente(Ana, Cod1, Null)], ClientesIniciais}
  /\ cobrancas = [id \in {} |-> Linha(Pendente, NA, Null)]
  /\ config = SemConfig
  /\ arquivos = {}
  /\ retorno = RetornoOcioso
  /\ res = SemResposta
  /\ obs = ObsInicial
  /\ gets = <<>>
  /\ documentos = DocumentosIniciais(arquivos)
  /\ InitSenhas

NextListagem ==
  \/ \E body \in CorposClienteCompletos, uuid \in IdsClientes :
       PostClientePg(body, uuid)
  \/ \E id \in IdsClientes, body \in CorposClienteCompletos :
       PutClientePg(id, body)
  \/ GetClientesPg

SpecListagem == InitListagem /\ [][NextListagem]_vars

\* The sqlite revision on its password routes.
InitReset ==
  /\ rev = "sqlite"
  /\ cobrancas = [id \in {} |-> Linha(Pendente, SemColuna, Null)]
  /\ clientes = ClientesIniciais
  /\ config = SemConfig
  /\ arquivos = {}
  /\ retorno = RetornoOcioso
  /\ res = SemResposta
  /\ obs = ObsInicial
  /\ gets = <<>>
  /\ documentos = DocumentosIniciais(arquivos)
  /\ InitSenhas

NextReset ==
  \/ \E body \in CorposForgot, token \in Tokens, insertErr \in BOOLEAN,
        emailError \in BOOLEAN :
       ForgotPassword(body, token, insertErr, emailError)
  \/ \E token \in Tokens : PassaExpiresAt(token)
  \/ \E r \in 1..NumResets, body \in CorposReset, err \in BOOLEAN :
       ResetPasswordSelect(r, body, err)
  \/ \E r \in 1..NumResets, beginErr \in BOOLEAN : ResetPasswordBegin(r, beginErr)
  \/ \E r \in 1..NumResets, updateErr \in BOOLEAN :
       ResetPasswordUpdate(r, updateErr)
  \/ \E r \in 1..NumResets, deleteErr \in BOOLEAN :
       ResetPasswordDelete(r, deleteErr)
  \/ \E r \in 1..NumResets, commitErr \in BOOLEAN :
       ResetPasswordCommit(r, commitErr)

SpecReset == InitReset /\ [][NextReset]_vars

\* ------------------------------------------- properties: return-file run

\* The request of the return file has been answered with the tally.
TallyEnviado == res.rota = "processar-retorno" /\ res.status = 200

\* What the file's writer meant by record reg.
RegT(reg) == reg.marca = <<"T">>
RegBemFormado(reg) == RegT(reg) /\ reg.id # <<>> /\ reg.cod # <<>>
RegPago(reg) == reg.cod \in {<<"0", "0">>, <<"P", "G">>}
Resolvido(reg) == IF RegPago(reg) THEN Pago ELSE Rejeitado(reg.cod)

RegsT == {i \in DOMAIN obs.regs : RegT(obs.regs[i])}
RegsBemFormados == {i \in DOMAIN obs.regs : RegBemFormado(obs.regs[i])}
RegsSemCobranca ==
  {i \in RegsBemFormados : obs.regs[i].id \notin DOMAIN cobrancas}

\* Every 'T' record of the file is well formed and no identifier is repeated.
ArquivoBemFormado ==
  /\ RegsT = RegsBemFormados
  /\ \A i, j \in RegsBemFormados : obs.regs[i].id = obs.regs[j].id => i = j

\* Lines whose UPDATE has called back.
Concluidas == obs.aplicadas \cup obs.comErro \cup obs.semLinha

\* C1: for a file of N well-formed 'T' lines with distinct identifiers, M of
\* them naming charges that do not exist, the tally reports processed = N
\* and updateFailures = M, and exactly the N - M existing charges have the
\* resolved status (stated for runs in which no statement failed).
C1_TallyContaInexistentes ==
  (TallyEnviado /\ ArquivoBemFormado /\ obs.comErro = {}) =>
    /\ res.corpo.processados = Cardinality(RegsBemFormados)
    /\ res.corpo.falhas = Cardinality(RegsSemCobranca)
    /\ Cardinality(obs.aplicadas) =
         Cardinality(RegsBemFormados) - Cardinality(RegsSemCobranca)
    /\ \A i \in RegsBemFormados \ RegsSemCobranca :
         cobrancas[obs.regs[i].id].status = Resolvido(obs.regs[i])

\* The part of C1 the code keeps: processed = N and the N - M existing
\* charges carry the resolved status.
C1_ParteValida ==
  (TallyEnviado /\ ArquivoBemFormado /\ obs.comErro = {}) =>
    /\ res.corpo.processados = Cardinality(RegsBemFormados)
    /\ obs.aplicadas = RegsBemFormados \ RegsSemCobranca
    /\ \A i \in RegsBemFormados \ RegsSemCobranca :
         cobrancas[obs.regs[i].id].status = Resolvido(obs.regs[i])

C1_Witness ==
  /\ TallyEnviado /\ ArquivoBemFormado /\ obs.comErro = {}
  /\ Cardinality(RegsBemFormados) = 2
  /\ Cardinality(RegsSemCobranca) = 1

\* C2: the tally is sent only after the callback of every UPDATE issued for
\* a line of the file has fired; no update of the request is in flight.
C2_TallyDepoisDosUpdates ==
  TallyEnviado =>
    /\ \A i \in DOMAIN retorno.promises :
         retorno.promises[i].run => i \in Concluidas
    /\ res.corpo.falhas = Cardinality(obs.comErro)

C2_Witness ==
  /\ TallyEnviado
  /\ Cardinality(Concluidas) = 2
  /\ obs.comErro # {}
  /\ obs.aplicadas # {}

\* C3: a failing update (statement error or identifier not found) leaves the
\* other lines' updates applied, is counted in updateFailures, and the
\* request ends with the 200 tally.
C3_FalhasIsoladasEContadas ==
  retorno.pc = "respondido" =>
    /\ res.status = 200
    /\ \A i \in RegsBemFormados :
         (i \notin obs.comErro /\ obs.regs[i].id \in DOMAIN cobrancas)
           => i \in obs.aplicadas
    /\ res.corpo.falhas =
         Cardinality(obs.comErro) + Cardinality(obs.semLinha)

\* The part of C3 the code keeps: isolation, the 200 tally, statement
\* errors counted.
C3_ParteValida ==
  retorno.pc = "respondido" =>
    /\ res.status = 200
    /\ \A i \in RegsBemFormados :
         (i \notin obs.comErro /\ obs.regs[i].id \in DOMAIN cobrancas)
           => i \in obs.aplicadas
    /\ res.corpo.falhas = Cardinality(obs.comErro)

C3_Witness ==
  /\ retorno.pc = "respondido"
  /\ obs.semLinha # {}
  /\ obs.aplicadas # {}

\* A record written shorter than 19 characters whose identifier or code is
\* empty.
RegCurto(reg) ==
  RegT(reg) /\ Len(Texto(reg)) < 19 /\ (reg.id = <<>> \/ reg.cod = <<>>)

\* C4: a line shorter than 19 characters, with an empty identifier or code,
\* is never applied: no UPDATE is issued for it and no charge gets the
\* status Rejected with an empty code.
C4_LinhaCurtaNaoAplicada ==
  /\ \A i \in DOMAIN obs.regs :
       RegCurto(obs.regs[i]) => ~retorno.promises[i].run
  /\ \A id \in DOMAIN cobrancas : cobrancas[id].status # Rejeitado(<<>>)

C4_Witness ==
  \E i \in DOMAIN obs.regs :
    /\ RegCurto(obs.regs[i])
    /\ i \in obs.aplicadas
    /\ cobrancas[obs.regs[i].id].status = Rejeitado(<<>>)

\* The lines the writer put in the file: one per record (one empty line when
\* there is no record), and an empty one after a final separator.
LinhasEscritas ==
  LET textos == IF obs.regs = <<>> THEN << <<>> >>
                ELSE [i \in DOMAIN obs.regs |-> Texto(obs.regs[i])]
  IN IF obs.final THEN Append(textos, <<>>) ELSE textos

\* C5: a line that is blank after trimming or does not start with 'T' is not
\* counted as processed, gets no outcome and no UPDATE; the file is cut into
\* its lines at "\n" and at "\r\n" alike.
C5_LinhasIgnoradas ==
  retorno.pc # "ocioso" =>
    /\ retorno.linhas = LinhasEscritas
    /\ retorno.processados = Cardinality(RegsT)
    /\ \A i \in DOMAIN retorno.promises :
         i \notin RegsT =>
           /\ retorno.promises[i].contada = "nao"
           /\ ~retorno.promises[i].run
           /\ retorno.promises[i].estado = "resolved"
           /\ i \notin Concluidas

C5_Witness ==
  /\ TallyEnviado
  /\ obs.sep = <<CR, LF>>
  /\ obs.final
  /\ \E i \in DOMAIN obs.regs : obs.regs[i].marca = <<"H">>
  /\ res.corpo.processados = 1
  /\ Len(retorno.linhas) = 3

\* Records written at full column width.
RegsTLargos == {i \in RegsT : obs.regs[i].pad}

\* C6: for a 'T' line the identifier is the trimmed characters [1,17) and
\* the code the trimmed characters [17,19); code "00" or "PG" resolves to
\* Pago and counts as paid, any other non-empty code c resolves to
\* Rejeitado (c) and counts as rejected.
C6_Classificacao ==
  retorno.pc # "ocioso" =>
    /\ \A i \in RegsTLargos :
         LET p == retorno.promises[i]
             reg == obs.regs[i]
         IN /\ p.identificadorCobranca = reg.id
            /\ p.codigoOcorrencia = reg.cod
            /\ RegPago(reg) => p.novoStatus = Pago /\ p.contada = "pago"
            /\ (~RegPago(reg) /\ reg.cod # <<>>) =>
                 p.novoStatus = Rejeitado(reg.cod) /\ p.contada = "rejeitado"
    /\ (RegsT = RegsTLargos) =>
         retorno.pagos =
           Cardinality({i \in RegsT : RegPago(obs.regs[i])})
    /\ (RegsT = RegsTLargos /\ \A i \in RegsT : obs.regs[i].cod # <<>>) =>
         retorno.rejeitados =
           Cardinality({i \in RegsT : ~RegPago(obs.regs[i])})

C6_Witness ==
  /\ TallyEnviado
  /\ Len(obs.regs) = 2
  /\ obs.regs[1] = Reg(<<"T">>, C1, <<"0", "0">>, TRUE)
  /\ obs.regs[2] = Reg(<<"T">>, C2, <<"0", "7">>, TRUE)
  /\ res.corpo.pagos = 1 /\ res.corpo.rejeitados = 1
  /\ DOMAIN cobrancas = IdsBanco
  /\ cobrancas[C1].status = Pago
  /\ cobrancas[C2].status = Rejeitado(<<"0", "7">>)

\* ------------------------------------------ properties: marking and archiving

\* POST /api/marcar-remessa with body, in whichever revision is running.
MarcarRemessa(body) == MarcarRemessaSqlite(body) \/ MarcarRemessaPg(body)

\* The request names a non-empty identifier set and a sequence value.
PedidoMarcarCompleto(body) ==
  /\ body.idsParaMarcar # Ausente
  /\ Valor(body.idsParaMarcar) # {}
  /\ body.nsaDaRemessa \notin {Ausente, {<<>>}}

\* The identifier set is empty or the sequence value is absent.
PedidoMarcarIncompleto(body) ==
  \/ body.idsParaMarcar # Ausente /\ Valor(body.idsParaMarcar) = {}
  \/ body.nsaDaRemessa = Ausente

\* C7: mark-as-shipped with a non-empty identifier set S and a sequence value
\* v answers 200, sets nsa_remessa to v and statusRemessa to 'Processado' on
\* every charge of S that exists, skips the identifiers of S that do not
\* exist, leaves the other charges alone and reports as its count the number
\* of existing charges in S.
C7_MarcaExistentes ==
  [][\A body \in CorposMarcar :
       (PedidoMarcarCompleto(body) /\ MarcarRemessa(body)) =>
         LET S == Valor(body.idsParaMarcar)
             v == Valor(body.nsaDaRemessa)
         IN /\ res'.status = 200
            /\ DOMAIN cobrancas' = DOMAIN cobrancas
            /\ \A id \in DOMAIN cobrancas :
                 IF id \in S
                 THEN /\ cobrancas'[id].nsa_remessa = v
                      /\ cobrancas'[id].statusRemessa = Processado
                 ELSE cobrancas'[id] = cobrancas[id]
            /\ res'.corpo.total = Cardinality(S \cap DOMAIN cobrancas)]_vars

\* The part of C7 every revision keeps: the sequence value is set on the
\* existing charges of S, the count is their number, and statusRemessa is
\* set where the table has that column (pg).
C7_ParteValida ==
  [][\A body \in CorposMarcar :
       (PedidoMarcarCompleto(body) /\ MarcarRemessa(body)) =>
         LET S == Valor(body.idsParaMarcar)
             v == Valor(body.nsaDaRemessa)
         IN /\ res'.status = 200
            /\ DOMAIN cobrancas' = DOMAIN cobrancas
            /\ \A id \in DOMAIN cobrancas :
                 IF id \in S
                 THEN /\ cobrancas'[id].nsa_remessa = v
                      /\ rev = "pg" => cobrancas'[id].statusRemessa = Processado
                 ELSE cobrancas'[id] = cobrancas[id]
            /\ res'.corpo.total = Cardinality(S \cap DOMAIN cobrancas)]_vars

C7_Witness ==
  /\ res.rota = "marcar-remessa" /\ res.status = 200
  /\ Valor(res.pedido.idsParaMarcar) = {C1, C9}
  /\ res.corpo.total = 1
  /\ C1 \in DOMAIN cobrancas /\ cobrancas[C1].nsa_remessa = Nsa007
  /\ C2 \in DOMAIN cobrancas /\ cobrancas[C2].nsa_remessa = Null

\* C8: mark-as-shipped with an empty identifier set, or with the sequence
\* value absent, answers 400 (never 500) and leaves every charge unchanged.
C8_MarcarIncompletoDa400 ==
  [][\A body \in CorposMarcar :
       (PedidoMarcarIncompleto(body) /\ MarcarRemessa(body)) =>
         /\ res'.status = 400
         /\ cobrancas' = cobrancas]_vars

\* The part of C8 every revision keeps: the charges are unchanged, and the
\* answer is 400 except for the empty set in the pg revision.
C8_ParteValida ==
  [][\A body \in CorposMarcar :
       (PedidoMarcarIncompleto(body) /\ MarcarRemessa(body)) =>
         /\ cobrancas' = cobrancas
         /\ \/ res'.status = 400
            \/ /\ rev = "pg"
               /\ body.idsParaMarcar = {{}}
               /\ ~Falsy(body.nsaDaRemessa)
               /\ res'.status = 500]_vars

C8_Witness ==
  /\ res.rota = "marcar-remessa" /\ res.status = 500
  /\ res.pedido.idsParaMarcar = {{}}
  /\ res.pedido.nsaDaRemessa = {Nsa007}

\* C9: a charge whose nsa_remessa is not null keeps a non-null nsa_remessa
\* through every step, for as long as the charge exists.
C9_NsaNuncaApagado ==
  [][\A id \in DOMAIN cobrancas \cap DOMAIN cobrancas' :
       cobrancas[id].nsa_remessa # Null => cobrancas'[id].nsa_remessa # Null]_vars

C9_Witness ==
  /\ rev = "sqlite"
  /\ res.rota = "put-cobranca" /\ res.status = 200
  /\ \E id \in DOMAIN cobrancas :
       cobrancas[id].nsa_remessa = Null /\ cobrancas[id].status = Pago

\* C10: after an archive request for the charges S under period P is
\* answered 200, no charge of S is in the charge table, every other charge
\* is still there unchanged, and the archive listing names remessa_P.json.
C10_ArquivoListado ==
  [][\A body \in CorposArquivar :
       (ArquivarRemessa(body, FALSE) /\ res'.status = 200) =>
         LET S == Valor(body.cobrancasParaArquivar)
             P == Valor(body.periodo)
             lista == ListarArquivos(arquivos')
         IN /\ S \cap DOMAIN cobrancas' = {}
            /\ \A id \in DOMAIN cobrancas \ S :
                 id \in DOMAIN cobrancas' /\ cobrancas'[id] = cobrancas[id]
            /\ \E i \in DOMAIN lista : lista[i] = NomeRemessa(P)]_vars

\* The part of C10 the code keeps: the charges of S are gone and the others
\* unchanged.
C10_ParteValida ==
  [][\A body \in CorposArquivar :
       (ArquivarRemessa(body, FALSE) /\ res'.status = 200) =>
         LET S == Valor(body.cobrancasParaArquivar)
         IN /\ S \cap DOMAIN cobrancas' = {}
            /\ \A id \in DOMAIN cobrancas \ S :
                 id \in DOMAIN cobrancas' /\ cobrancas'[id] = cobrancas[id]]_vars

C10_Witness ==
  /\ res.rota = "arquivar-remessa" /\ res.status = 200
  /\ Valor(res.pedido.cobrancasParaArquivar) = {C1}
  /\ Valor(res.pedido.periodo) = <<2025, 1>>
  /\ DOMAIN cobrancas = {C2}
  /\ ListarArquivos(arquivos) = <<>>

\* The archive document of period P, empty when the file does not exist.
Documento(docs, P) ==
  IF NomeRemessa(P) \in DOMAIN docs THEN docs[NomeRemessa(P)] ELSE <<>>

\* C11: an archive request for the charges S under period P that is answered
\* 200 leaves the period's archive document holding what it held before
\* followed by the snapshots of S: nothing written earlier is removed or
\* overwritten.
C11_ArquivoSoCresce ==
  [][\A body \in CorposArquivar :
       (ArquivarRemessa(body, FALSE) /\ res'.status = 200) =>
         LET S == Valor(body.cobrancasParaArquivar)
             antes == Documento(documentos, Valor(body.periodo))
             depois == Documento(documentos', Valor(body.periodo))
         IN /\ Len(depois) = Len(antes) + Cardinality(S)
            /\ SubSeq(depois, 1, Len(antes)) = antes
            /\ {depois[i] : i \in (Len(antes) + 1)..Len(depois)} = S]_vars

\* The part of C11 the code keeps: no document loses or changes a snapshot.
C11_ParteValida ==
  [][\A nome \in DOMAIN documentos :
       nome \in DOMAIN documentos' /\
       SubSeq(documentos'[nome], 1, Len(documentos[nome])) = documentos[nome]]_vars

\* The message of a response names the identifier id.
Menciona(corpo, id) == \E i \in DOMAIN corpo.message : corpo.message[i] = id

\* C12: an archive request whose repository delete fails is answered 500,
\* never 200, and the response names the charge identifiers it targeted.
C12_FalhaDoDeleteComIds ==
  [][\A body \in CorposArquivar :
       (ArquivarRemessa(body, TRUE)
          /\ body.cobrancasParaArquivar \notin {Ausente, {{}}}) =>
         /\ res'.status = 500
         /\ \A id \in Valor(body.cobrancasParaArquivar) :
              Menciona(res'.corpo, id)]_vars

\* C12 as the code has it: an archive request whose repository delete fails
\* is answered 500, never 200, with the handler's text and the database
\* client's error message, and no charge is removed.
C12_FalhaDoDeleteDa500 ==
  [][\A body \in CorposArquivar :
       (ArquivarRemessa(body, TRUE)
          /\ body.cobrancasParaArquivar \notin {Ausente, {{}}}) =>
         /\ res'.status = 500
         /\ res'.corpo.message = <<FalhaAoDeletar, ErroDoBanco>>
         /\ cobrancas' = cobrancas]_vars

C12_Witness ==
  /\ res.rota = "arquivar-remessa" /\ res.status = 500
  /\ Valor(res.pedido.cobrancasParaArquivar) = {C1, C2}
  /\ DOMAIN cobrancas = {C1, C2}

\* ------------------------------------------------ properties: configuration

\* The GET requests answered 200.
GetsAtendidos == {i \in DOMAIN gets : gets[i].pc = "fim" /\ gets[i].status = 200}

\* C14: however concurrent GET /api/config requests on a table without a
\* row interleave, at most one of them creates the row of id 1, the table
\* holds exactly that one row once a request has been answered, and every
\* request answered returns ultimoNsaSequencial 0 and parteFixaNsa "04".
C14_UmaSoConfiguracao ==
  /\ Cardinality({i \in DOMAIN gets : gets[i].criou}) <= 1
  /\ DOMAIN config \subseteq {1}
  /\ GetsAtendidos # {} => DOMAIN config = {1}
  /\ \A i \in GetsAtendidos :
       /\ gets[i].corpo.ultimoNsaSequencial = 0
       /\ gets[i].corpo.parteFixaNsa = ParteFixa04

C14_Witness ==
  /\ GetsAtendidos = 1..NumGets
  /\ Cardinality({i \in DOMAIN gets : gets[i].criou}) = 1
  /\ gets[1].criou /\ gets[2].pc = "fim"

\* C15: the stored ultimoNsaSequencial never decreases in a step of a GET
\* or of a PUT of the configuration.
C15_NsaMonotonico ==
  [][\A id \in DOMAIN config \cap DOMAIN config' :
       config'[id].ultimoNsaSequencial >= config[id].ultimoNsaSequencial]_vars

C15_Witness ==
  /\ res.rota = "put-config" /\ res.status = 200
  /\ config[1].ultimoNsaSequencial = 0

\* ------------------------------------------------------ properties: charges

\* The row a step has added to cobrancas.
LinhaCriada == cobrancas'[CHOOSE id \in DOMAIN cobrancas' \ DOMAIN cobrancas : TRUE]

\* A step is a POST /api/cobrancas without a status that is answered 201.
CriadaSemStatusSqlite ==
  \E body \in CorposPostSqlite :
    body.status = Ausente /\ PostCobrancaSqlite(body) /\ res'.status = 201

CriadaSemStatusPg ==
  \E body \in CorposCobrancaPg, uuid \in IdsBanco :
    body.status = Ausente /\ PostCobrancaPg(body, uuid) /\ res'.status = 201

\* C16: a charge created by a request without a status is stored with
\* status 'Pendente', statusRemessa 'N/A' and a null nsa_remessa, whatever
\* the other fields of the request are.
C16_PadroesDaCobranca ==
  [][(CriadaSemStatusSqlite \/ CriadaSemStatusPg) =>
       /\ LinhaCriada.status = Pendente
       /\ LinhaCriada.statusRemessa = NA
       /\ LinhaCriada.nsa_remessa = Null]_vars

\* The part of C16 every revision keeps: the status is 'Pendente'; in the
\* pg revision statusRemessa is 'N/A' and nsa_remessa null.
C16_ParteValida ==
  [][/\ CriadaSemStatusSqlite => LinhaCriada.status = Pendente
     /\ CriadaSemStatusPg =>
          /\ LinhaCriada.status = Pendente
          /\ LinhaCriada.statusRemessa = NA
          /\ LinhaCriada.nsa_remessa = Null]_vars

\* st is the text 'Rejeitado (c)' for a non-empty c.
RejeitadoComCodigo(st) ==
  /\ Len(st) > Len(Rejeitado(<<>>))
  /\ st = Rejeitado(SubSeq(st, Len(Rejeitado(<<>>)), Len(st) - 1))

StatusValido(st) == st = Pendente \/ st = Pago \/ RejeitadoComCodigo(st)

\* C17: every stored charge's status is 'Pendente', 'Pago' or
\* 'Rejeitado (c)' with a non-empty code c; it is never null nor any other
\* text.
C17_DominioDoStatus ==
  \A id \in DOMAIN cobrancas : StatusValido(cobrancas[id].status)

\* ---------------------------------------------------- properties: customers

\* A step is a POST or PUT /api/clientes with body.
PostCliente(body) ==
  \/ \E novoId \in IdsClientes : PostClientePgClient(body, novoId)
  \/ PostClienteSqlite(body)
  \/ \E uuid \in IdsClientes : PostClientePg(body, uuid)

PutCliente(id, body) == PutClienteNome(id, body) \/ PutClientePg(id, body)

\* C18: creating or updating a customer with an empty or missing name, or
\* with an empty or missing code, is answered 400 and leaves the stored
\* customers unchanged.
C18_ClienteSemNomeOuCodigo ==
  [][\A body \in CorposCliente :
       ((Falsy(body.nome) \/ Falsy(body.codigo))
          /\ (PostCliente(body) \/ \E id \in IdsClientes : PutCliente(id, body)))
       => (res'.status = 400 /\ clientes' = clientes)]_vars

\* The part of C18 every revision keeps: an empty or missing name is answered
\* 400, and so is an empty or missing code in the pg revision.
C18_ParteValida ==
  [][\A body \in CorposCliente :
       ((Falsy(body.nome) \/ (rev = "pg" /\ Falsy(body.codigo)))
          /\ (PostCliente(body) \/ \E id \in IdsClientes : PutCliente(id, body)))
       => (res'.status = 400 /\ clientes' = clientes)]_vars

\* A step is a DELETE /api/clientes/:id.
DeleteCliente(id) ==
  \/ \E foreignKeys \in BOOLEAN : DeleteClienteSqlite(id, foreignKeys)
  \/ \E politica \in Politicas : DeleteClienteSupabase(id, politica)

\* C19: deleting a customer that a stored charge references is refused, the
\* customer and its charges stay; so every stored charge's clienteId is the
\* id of a stored customer.
C19_ClienteReferenciadoFica ==
  [][/\ \A id \in DOMAIN clientes :
          (CobrancasDe(cobrancas, id) # {} /\ DeleteCliente(id)) =>
            (clientes' = clientes /\ cobrancas' = cobrancas)
     /\ \A c \in DOMAIN cobrancas' :
          cobrancas'[c].clienteId \in DOMAIN clientes']_vars

\* A step is a PUT of a customer, a charge or the configuration under an id
\* its table does not hold.
PutSemLinha ==
  \/ \E id \in IdsClientes \ DOMAIN clientes, body \in CorposCliente :
       PutCliente(id, body)
  \/ \E id \in IdsBanco \ DOMAIN cobrancas :
       \/ \E body \in CorposPutSqlite : PutCobrancaSqlite(id, body)
       \/ \E body \in CorposCobrancaPg, aceitaNull \in BOOLEAN :
            PutCobrancaPg(id, body, aceitaNull)
  \/ \E id \in {1, 2} \ DOMAIN config, body \in CorposConfig :
       PutConfigPg(id, body)

C21_DeleteSemLinhaDa404 ==
  [][/\ \A id \in IdsBanco :
          DeleteCobranca(id) =>
            /\ res'.status = (IF id \in DOMAIN cobrancas THEN 204 ELSE 404)
            /\ cobrancas' = DeleteIn(cobrancas, {id})
            /\ clientes' = clientes
     /\ \A id \in IdsClientes :
          DeleteCliente(id) =>
            /\ res'.status = (IF id \in DOMAIN clientes THEN 204 ELSE 404)
            /\ clientes' = DeleteIn(clientes, {id})
            /\ cobrancas' = cobrancas]_vars

\* The part of C21 the sqlite and pg revisions keep for charges, and the
\* sqlite revision for the customer table itself.
C21_ParteValida ==
  [][/\ \A id \in IdsBanco :
          (rev # "supabase" /\ DeleteCobranca(id)) =>
            /\ res'.status = (IF id \in DOMAIN cobrancas THEN 204 ELSE 404)
            /\ cobrancas' = DeleteIn(cobrancas, {id})
            /\ clientes' = clientes
     /\ \A id \in IdsClientes :
          (rev = "sqlite" /\ DeleteCliente(id)) =>
            /\ res'.status = (IF id \in DOMAIN clientes THEN 204 ELSE 404)
            /\ clientes' = DeleteIn(clientes, {id})]_vars

\* --------------------------------------------------- properties: round trip

\* C22: for every valid customer input with non-empty name and code, creating
\* the customer and then listing the customers gives a list with a record
\* whose client-facing fields are those of the input (a field the input
\* leaves out is listed as null), under an id no other listed customer has.
C22_CriarDepoisListar ==
  [][(res.rota = "post-cliente" /\ res.status = 201 /\ GetClientesPg) =>
       \E i \in DOMAIN res'.corpo :
         /\ res'.corpo[i].nome = Valor(res.pedido.nome)
         /\ res'.corpo[i].codigo = Valor(res.pedido.codigo)
         /\ res'.corpo[i].email = Bind(res.pedido.email)
         /\ res'.corpo[i].nome # <<>> /\ res'.corpo[i].codigo # <<>>
         /\ \A j \in DOMAIN res'.corpo \ {i} :
              res'.corpo[j].id # res'.corpo[i].id]_vars

C22_Witness ==
  /\ rev = "pg"
  /\ res.rota = "get-clientes" /\ res.status = 200
  /\ Len(res.corpo) = 2
  /\ res.corpo[1].id = K1
  /\ res.corpo[2] =
       [id |-> K2, nome |-> <<"B", "i", "a">>, codigo |-> Cod1,
        email |-> Email1]

\* --------------------------------------------- properties: the second run

\* The second run of the same content has been answered.
SegundaRespondida ==
  obs.anterior.houve /\ retorno.pc = "respondido"

\* No UPDATE failed in either run.
SemFalhasNasDuas == obs.anterior.detalhes.falhas = 0 /\ obs.comErro = {}

\* No identifier is on two lines that resolve to different statuses.
SemIdentificadorDisputado ==
  \A i, j \in DOMAIN retorno.promises :
    (/\ retorno.promises[i].run /\ retorno.promises[j].run
     /\ retorno.promises[i].identificadorCobranca =
          retorno.promises[j].identificadorCobranca)
    => retorno.promises[i].novoStatus = retorno.promises[j].novoStatus

MesmosStatus ==
  \A id \in DOMAIN cobrancas : cobrancas[id].status = obs.anterior.status[id]

C24_SemArquivoDa400 ==
  [][ProcessarRetornoSemArquivo =>
       /\ res'.rota = "processar-retorno" /\ res'.status = 400
       /\ res'.corpo = <<>>
       /\ cobrancas' = cobrancas
       /\ retorno'.pc # "aguardando"
       /\ \A i \in DOMAIN retorno'.promises :
            retorno'.promises[i].estado # "pending"]_vars

C24_Witness ==
  /\ res.rota = "processar-retorno" /\ res.status = 400
  /\ retorno.pc = "ocioso"
  /\ DOMAIN cobrancas = IdsBanco
  /\ \A id \in IdsBanco : cobrancas[id].status = Pendente

\* ------------------------------------- properties: one identifier, two lines

\* The lines of the file in flight that name charge id.
LinhasDe(id) ==
  {i \in DOMAIN retorno.promises :
     retorno.promises[i].run /\ retorno.promises[i].identificadorCobranca = id}

\* Charge id exists and is on two well-formed lines with different codes.
Disputada(id) ==
  /\ id \in DOMAIN cobrancas
  /\ \E i, j \in LinhasDe(id) \cap RegsBemFormados :
       retorno.promises[i].codigoOcorrencia # retorno.promises[j].codigoOcorrencia

C26_SoDePendente ==
  obs.anterior.houve =>
    \A id \in DOMAIN cobrancas :
      obs.anterior.status[id] # Pendente =>
        cobrancas[id].status = obs.anterior.status[id]

\* The part of C26 the code keeps: a run leaves a charge with the status it
\* had, with Pago or with Rejeitado (code).
C26_ParteValida ==
  [][\A id \in DOMAIN cobrancas :
       \/ cobrancas'[id].status = cobrancas[id].status
       \/ cobrancas'[id].status = Pago
       \/ \E i \in DOMAIN retorno.promises :
            cobrancas'[id].status =
              Rejeitado(retorno.promises[i].codigoOcorrencia)]_vars

\* --------------------------------------------------- properties: the tally

\* The lines of the file in flight that the handler counts.
LinhasContadas ==
  {i \in DOMAIN retorno.linhas : ~IgnoraLinha(retorno.linhas[i])}

LinhasPagas ==
  {i \in LinhasContadas : CodigoPago(CodigoOcorrencia(retorno.linhas[i]))}

\* C27: in every tally, paid + rejected = processed and
\* 0 <= updateFailures <= processed; each counted 'T' line is counted once,
\* as paid or as rejected, by its code alone, whether its UPDATE succeeds,
\* fails or is never issued.
C27_TallyConsistente ==
  TallyEnviado =>
    /\ res.corpo.pagos + res.corpo.rejeitados = res.corpo.processados
    /\ 0 <= res.corpo.falhas /\ res.corpo.falhas <= res.corpo.processados
    /\ res.corpo.processados = Cardinality(LinhasContadas)
    /\ res.corpo.pagos = Cardinality(LinhasPagas)
    /\ res.corpo.rejeitados = Cardinality(LinhasContadas \ LinhasPagas)

C27_Witness ==
  /\ TallyEnviado
  /\ Len(retorno.linhas) = 3
  /\ res.corpo.processados = 2
  /\ res.corpo.pagos = 1 /\ res.corpo.rejeitados = 1
  /\ res.corpo.falhas = 1
  /\ \E i \in LinhasContadas : ~retorno.promises[i].run

\* ------------------------------------------- properties: what a run touches

\* C28: return-file processing changes nothing but the status of charges
\* whose identifier is on a 'T' line of the file: it creates and deletes no
\* charge, changes no clienteId, valor, vencimento, statusRemessa or
\* nsa_remessa, and leaves every other charge, every customer, the
\* configuration and the files as they were.
C28_SoOStatusDasNomeadas ==
  [][/\ DOMAIN cobrancas' = DOMAIN cobrancas
     /\ \A id \in DOMAIN cobrancas :
          /\ [cobrancas'[id] EXCEPT !.status = cobrancas[id].status]
               = cobrancas[id]
          /\ cobrancas'[id].status # cobrancas[id].status =>
               \E i \in LinhasContadas :
                 IdentificadorCobranca(retorno.linhas[i]) = id
     /\ clientes' = clientes
     /\ config' = config
     /\ arquivos' = arquivos /\ documentos' = documentos]_vars

C28_Witness ==
  /\ TallyEnviado
  /\ DOMAIN cobrancas = IdsBanco
  /\ cobrancas[C1].status = Pago
  /\ cobrancas[C2].status = Pendente
  /\ obs.aplicadas = {1}
  /\ Len(obs.regs) = 1

\* ------------------------------------------------ properties: the response

\* C29: every request that carries a file is eventually answered, once,
\* provided every issued UPDATE calls back: the promise of each line is
\* resolved once and stays resolved, whether the line is skipped, malformed,
\* updated or failed, and the answer is the 200 with the tally, never a 500.
C29_UmaRespostaPorPedido ==
  /\ (retorno.pc = "aguardando") ~> (retorno.pc = "respondido" /\ TallyEnviado)
  /\ [][/\ retorno.pc = "aguardando" =>
            \A i \in DOMAIN retorno.promises :
              retorno.promises[i].estado = "resolved" =>
                retorno'.promises[i].estado = "resolved"
        /\ res' # res =>
             (retorno.pc # "respondido" /\ res'.status \in {0, 200, 400})
        /\ retorno.pc = "respondido" => res' = res]_vars

C29_Witness ==
  /\ TallyEnviado
  /\ retorno.pc = "respondido"
  /\ obs.comErro # {}
  /\ obs.aplicadas # {}
  /\ \E i \in DOMAIN retorno.promises : ~retorno.promises[i].run

\* ------------------------------------------- properties: the reset token

\* The requests answered 200 that presented token.
Sucessos(token) ==
  {r \in DOMAIN resets : resets[r].token = token /\ resets[r].status = 200}

\* C30: a reset token is single-use and atomic under every interleaving of
\* POST /api/reset-password requests: one token leads to at most one
\* successful password change, the UPDATE of the password and the DELETE of
\* the token are both committed or both rolled back, and a request whose
\* token is expired or already consumed is answered 400 with the password
\* unchanged.
C30_TokenDeUmUsoSo ==
  [][/\ \A token \in Tokens : Cardinality(Sucessos(token))' <= 1
     /\ \A r \in DOMAIN resets, body \in CorposReset :
          (/\ ~Falsy(body.token) /\ ~Falsy(body.newPassword)
           /\ \/ Valor(body.token) \notin DOMAIN password_reset_tokens
              \/ password_reset_tokens[Valor(body.token)].expirado
           /\ ResetPasswordSelect(r, body, FALSE))
          => (resets'[r].status = 400 /\ usuarios' = usuarios)
     /\ (transacao.aberta /\ ~transacao'.aberta) =>
          \/ /\ usuarios' = transacao.usuarios
             /\ password_reset_tokens' = transacao.tokens
          \/ /\ resets'[transacao.dono].status = 200
             /\ resets[transacao.dono].token \notin DOMAIN password_reset_tokens'
             /\ usuarios'[resets[transacao.dono].userId].senha_hashed =
                  resets[transacao.dono].hashedPassword]_vars

\* The part of C30 the code keeps: a token that is expired or no longer
\* stored when the request reads it is answered 400 with the password
\* unchanged, and a transaction that ends leaves both statements applied or
\* neither.
C30_ParteValida ==
  [][/\ \A r \in DOMAIN resets, body \in CorposReset :
          (/\ ~Falsy(body.token) /\ ~Falsy(body.newPassword)
           /\ \/ Valor(body.token) \notin DOMAIN password_reset_tokens
              \/ password_reset_tokens[Valor(body.token)].expirado
           /\ ResetPasswordSelect(r, body, FALSE))
          => (resets'[r].status = 400 /\ usuarios' = usuarios)
     /\ (transacao.aberta /\ ~transacao'.aberta) =>
          \/ /\ usuarios' = transacao.usuarios
             /\ password_reset_tokens' = transacao.tokens
          \/ /\ resets'[transacao.dono].status = 200
             /\ resets[transacao.dono].token \notin DOMAIN password_reset_tokens'
             /\ usuarios'[resets[transacao.dono].userId].senha_hashed =
                  resets[transacao.dono].hashedPassword]_vars

=============================================================================
